---- MODULE Spec2Model ----
(***************************************************************************)
(* Model of the inspection capture and analysis core of mobile_aqlen:      *)
(*   - LLMCaptionService.generateCaptionsBatch   (config/firebase.ts)      *)
(*   - InspectionDatabase, the local SQLite store (database)               *)
(*   - InspectionAnalysisService.analyzeInspection (analysis service)      *)
(*   - RecordingProvider and CameraScreen.takePicture                      *)
(* Each subsystem has its own specification over the shared variables;     *)
(* the variables of the other subsystems stay at their initial values.     *)
(***************************************************************************)
EXTENDS Integers, Sequences, FiniteSets, TLC

VARIABLES
  capRequests,   \* generateCaptionsBatch: the requests argument
  capPc,         \* generateCaptionsBatch: position of the call
  capI,          \* generateCaptionsBatch: loop variable i
  capPromise,    \* generateCaptionsBatch: the generateCaption promise of each request
  capResults     \* generateCaptionsBatch: the results array

VARIABLES
  dbPhotos,      \* InspectionDatabase: the rows of table photos, in insertion order
  dbListed,      \* the rows the last getPhotosForInspection call returned
  dbInspections, \* InspectionDatabase: the rows of table inspections, in insertion order
  dbCall         \* the last call to the store: its method, how it ended, and the
                 \* rows it returned when it was getInspections

VARIABLES
  fsInspection,  \* Firestore: the inspection document (exists, firebaseAudioUrl, status)
  fsPhotos,      \* Firestore: the photo documents of the inspection, ordered by timestamp
  anaPc,         \* analyzeInspection: position of the call
  anaTranscription, \* analyzeInspection: const transcription
  anaPhotos,     \* analyzeInspection: const photos
  anaCaptions,   \* analyzeInspection: const photoCaptions
  anaRequestFailed, \* for each caption request of the call, whether it threw
  anaPersistFailed, \* for each photoCaption, whether its updatePhotoCaption threw
  anaStages,     \* the stages the current call has executed (its console log)
  anaResult      \* what the last call returned (or threw)

VARIABLES
  now,            \* Date.now(), in ticks of the duration timer
  recordingState, \* RecordingProvider: the recordingState of useState
  recordingRef,   \* RecordingProvider: recordingRef.current (0 is null)
  intervalRef,    \* RecordingProvider: intervalRef.current (0 is null)
  timers,         \* the setInterval timers not cleared, each with the startTime it closed over
  prepared,       \* the Audio.Recording handles prepared and not yet unloaded
  handles,        \* number of Audio.Recording handles created so far
  startPc,        \* startRecording: position of the call in flight
  lastStart,      \* how the last startRecording call ended (none while in flight)
  stopPc,         \* stopRecording: position of the call in flight
  stopInspectionId, \* stopRecording: whether an inspectionId was passed
  stopHandle,     \* stopRecording: the recording whose stopAndUnloadAsync is awaited
  stopFirebaseUrl, \* stopRecording: its local firebaseUrl ("" is undefined)
  lastStop,       \* how the last stopRecording call ended and what it returned
  startInterrupted, \* history: resetRecording or stopRecording ran during the startRecording call in flight
  isTakingPhoto,  \* CameraScreen: isTakingPhoto of useState
  takePc,         \* takePicture: position of the call in flight
  takeDuration,   \* takePicture: recordingState.duration in the closure of the call
  lastTake,       \* the alert the last takePicture call showed (none while in flight)
  takeError,      \* the error the catch block of the last takePicture call logged
  photosTaken     \* the photos handed to onPhotoTaken, by id

VARIABLES
  fsCreated,      \* Firestore: the documents createInspection added to collection inspections
  fsAutoIds,      \* Firestore: number of photo document ids addDoc has generated
  delPc,          \* deleteInspection: position of the call in flight
  delQueue        \* deleteInspection: the listed photos not yet deleted

VARIABLE
  ctxCall         \* getContextAroundTimestamp: the arguments of a call and what it returned

batchVars == <<capRequests, capPc, capI, capPromise, capResults>>

recordingVars == <<now, recordingState, recordingRef, intervalRef, timers, prepared,
                   handles, startPc, lastStart, stopPc, stopInspectionId, stopHandle, stopFirebaseUrl,
                 lastStop, startInterrupted>>

cameraVars == <<isTakingPhoto, takePc, takeDuration, lastTake, takeError, photosTaken>>

remoteVars == <<fsCreated, fsAutoIds, delPc, delQueue>>

contextVars == <<ctxCall>>

analysisLocals == <<anaPc, anaTranscription, anaPhotos, anaCaptions, anaRequestFailed,
                    anaPersistFailed, anaStages, anaResult>>

analysisVars == <<fsInspection, fsPhotos, anaPc, anaTranscription,
                  anaPhotos, anaCaptions, anaRequestFailed, anaPersistFailed,
                  anaStages, anaResult>>

storeVars == <<dbPhotos, dbListed, dbInspections, dbCall>>

vars == <<batchVars, storeVars, analysisVars, recordingVars, cameraVars, remoteVars, contextVars>>

----------------------------------------------------------------------------
(* Bounds of the model *)

MaxRequests == 7

MaxPhotos == 3

MaxFsPhotos == 2

MaxClock == 2

MaxStarts == 2

MaxShots == 1

MaxDocs == 3

----------------------------------------------------------------------------
(* LLMCaptionService                                                       *)

batchSize == 3

HighConfidence == 90      \* confidence 0.9, in hundredths

CaptionTexts == {"Water stain"}

\* What the caption service can answer to one request.
ServiceReplies ==
  {"network_error", "http_error", "bad_body", "no_content"} \cup CaptionTexts

\* Request k of a call: requests are told apart by their photoTimestamp.
\* An audio context is the sequence of the segment texts joined into it.
RequestAt(k) == [photoTimestamp |-> k * 1000, audioContext |-> <<"ctx">>]

\* The answers on which generateCaption throws: fetch rejects, the response is
\* not ok, or the body cannot be read as a completion.
ReplyThrows(reply) == reply \in {"network_error", "http_error", "bad_body"}

\* The value slot of a promise that holds no CaptionResult.
NoResult == [caption |-> "", confidence |-> 0, context |-> <<>>, timestamp |-> 0]

Promise(state, value) == [state |-> state, value |-> value]

\* Mutant of generateCaption: a request whose context is the placeholder of an
\* empty context is refused.
generateCaption_RefusesNoContext(request, reply) ==
  IF ReplyThrows(reply) \/ request.audioContext = <<"No audio context available">>
  THEN Promise("rejected", NoResult)
  ELSE Promise("fulfilled",
         [caption    |-> IF reply = "no_content" THEN "No caption generated" ELSE reply,
          confidence |-> HighConfidence,
          context    |-> request.audioContext,
          timestamp  |-> request.photoTimestamp])

\* generateCaption(request) for a given answer of the service: a promise that is
\* rejected when it throws and fulfilled with the CaptionResult otherwise.
generateCaption(request, reply) ==
  IF ReplyThrows(reply)
  THEN Promise("rejected", NoResult)
  ELSE Promise("fulfilled",
         [caption    |-> IF reply = "no_content" THEN "No caption generated" ELSE reply,
          confidence |-> HighConfidence,
          context    |-> request.audioContext,
          timestamp  |-> request.photoTimestamp])

\* The value the .catch handler of a batch item returns.
FailedCaption(request) ==
  [caption    |-> "Caption generation failed",
   confidence |-> 0,
   context    |-> request.audioContext,
   timestamp  |-> request.photoTimestamp]

Min(a, b) == IF a < b THEN a ELSE b

\* Indices (1-based) of requests.slice(i, i + batchSize).
BatchIndices(i, n) == (i + 1) .. Min(i + batchSize, n)

\* Mutant of BatchItem: the item's promise without its .catch handler.
BatchItem_NoCatch(k) == capPromise[k].value

\* this.generateCaption(request).catch(...) once settled.
BatchItem(k) ==
  IF capPromise[k].state = "rejected"
  THEN FailedCaption(capRequests[k])
  ELSE capPromise[k].value

RECURSIVE BatchResultsFrom(_, _)
BatchResultsFrom(lo, hi) ==
  IF lo > hi THEN <<>> ELSE <<BatchItem(lo)>> \o BatchResultsFrom(lo + 1, hi)

\* Promise.all(batchPromises): the items in the order of the batch.
BatchResults(i, n) == BatchResultsFrom(i + 1, Min(i + batchSize, n))

\* generateCaptionsBatch(requests) is called.
CallBatch(requests) ==
  /\ capRequests' = requests
  /\ capPc' = "loop"
  /\ capI' = 0
  /\ capPromise' = [k \in 1 .. Len(requests) |-> Promise("none", NoResult)]
  /\ capResults' = <<>>

\* Loop head with i < requests.length: batch.map issues every request of the batch.
IssueBatch ==
  /\ capPc = "loop"
  /\ capI < Len(capRequests)
  /\ capPromise' = [k \in DOMAIN capPromise |->
                      IF k \in BatchIndices(capI, Len(capRequests))
                      THEN Promise("pending", NoResult) ELSE capPromise[k]]
  /\ capPc' = "await"
  /\ UNCHANGED <<capRequests, capI, capResults>>

\* One request in flight settles.
SettleCaption(k, reply) ==
  /\ capPc = "await"
  /\ capPromise[k].state = "pending"
  /\ capPromise' = [capPromise EXCEPT ![k] = generateCaption(capRequests[k], reply)]
  /\ UNCHANGED <<capRequests, capPc, capI, capResults>>

\* Mutant of CollectBatch: the batch is taken as soon as one of its requests has
\* settled (Promise.race in place of Promise.all).
CollectBatch_Race ==
  /\ capPc = "await"
  /\ \E k \in BatchIndices(capI, Len(capRequests)) : capPromise[k].state # "pending"
  /\ capResults' = capResults \o BatchResults(capI, Len(capRequests))
  /\ IF capI + batchSize < Len(capRequests)
     THEN capPc' = "cooldown" /\ capI' = capI
     ELSE capPc' = "loop" /\ capI' = capI + batchSize
  /\ UNCHANGED <<capRequests, capPromise>>

\* Mutant of CollectBatch: no delay between two batches.
CollectBatch_NoCooldown ==
  /\ capPc = "await"
  /\ \A k \in BatchIndices(capI, Len(capRequests)) : capPromise[k].state # "pending"
  /\ capResults' = capResults \o BatchResults(capI, Len(capRequests))
  /\ capPc' = "loop"
  /\ capI' = capI + batchSize
  /\ UNCHANGED <<capRequests, capPromise>>

\* await Promise.all resolves: results.push(...batchResults), then the delay test.
CollectBatch ==
  /\ capPc = "await"
  /\ \A k \in BatchIndices(capI, Len(capRequests)) : capPromise[k].state # "pending"
  /\ capResults' = capResults \o BatchResults(capI, Len(capRequests))
  /\ IF capI + batchSize < Len(capRequests)
     THEN capPc' = "cooldown" /\ capI' = capI
     ELSE capPc' = "loop" /\ capI' = capI + batchSize
  /\ UNCHANGED <<capRequests, capPromise>>

\* The one second timer between two batches fires; i += batchSize.
CooldownElapsed ==
  /\ capPc = "cooldown"
  /\ capPc' = "loop"
  /\ capI' = capI + batchSize
  /\ UNCHANGED <<capRequests, capPromise, capResults>>

\* Loop exit: return results.
ReturnBatch ==
  /\ capPc = "loop"
  /\ capI >= Len(capRequests)
  /\ capPc' = "done"
  /\ UNCHANGED <<capRequests, capI, capPromise, capResults>>

----------------------------------------------------------------------------
(* InspectionDatabase: the local SQLite store                              *)

InspectionIds == {"inspection-1", "inspection-2"}

\* The ids a caller may pass to addPhoto: an id already in the table, or the
\* next unused one (ids are labels: which unused one is taken does not matter).
PhotoIds == 1 .. Min(Len(dbPhotos) + 1, MaxPhotos)

\* Values of Date.now() and of recordingState.duration a caller may pass.
TimeValues == {1000, 2000}

PhotoRow(id, inspectionId, timestamp, audioTimestamp) ==
  [id |-> id, inspection_id |-> inspectionId, timestamp |-> timestamp,
   audio_timestamp |-> audioTimestamp, caption |-> "null", firebase_url |-> "null"]

\* The client, address, claim number and date of an inspection.
InspectionTuples ==
  {[client |-> "Client A", address |-> "123 Main St", claim_number |-> "CLM-001",
    inspection_date |-> "2024-01-15"],
   [client |-> "Client B", address |-> "456 Oak Ave", claim_number |-> "CLM-002",
    inspection_date |-> "2024-01-16"]}

\* The argument of createInspection as its callers build it: no audio yet and
\* status DRAFT.
InspectionRecord(id, tuple) ==
  [id |-> id, client |-> tuple.client, address |-> tuple.address,
   claim_number |-> tuple.claim_number, inspection_date |-> tuple.inspection_date,
   audio_uri |-> "null", firebase_audio_url |-> "null", status |-> "DRAFT"]

\* The download URL of an uploaded photo.
RemotePhotoUrl == "gs://photo"

\* How a call to the store ended: it returned, or executeSync threw.
NoStoreCall == [method |-> "none", outcome |-> "none", rows |-> <<>>]

StoreCall(method, outcome) == [method |-> method, outcome |-> outcome, rows |-> <<>>]

InitStore ==
  /\ dbPhotos = <<>>
  /\ dbListed = <<>>
  /\ dbInspections = <<>>
  /\ dbCall = NoStoreCall

\* INSERT INTO photos: the row is appended, unless the PRIMARY KEY id is taken,
\* in which case executeSync throws and the table is unchanged.
InsertPhoto(photo) ==
  IF \E k \in 1 .. Len(dbPhotos) : dbPhotos[k].id = photo.id
  THEN dbPhotos
  ELSE Append(dbPhotos, photo)

\* The photos table declares FOREIGN KEY (inspection_id) REFERENCES inspections,
\* and the store never issues PRAGMA foreign_keys = ON: SQLite does not enforce
\* the reference, so inspection_id is not looked up in table inspections.
addPhoto(photo) ==
  /\ dbPhotos' = InsertPhoto(photo)
  /\ dbCall' = StoreCall("addPhoto", IF InsertPhoto(photo) = dbPhotos
                                     THEN "constraint failed" ELSE "returned")
  /\ UNCHANGED <<dbListed, dbInspections>>

\* The positions in table photos of the rows WHERE inspection_id = ?.
RowsOf(inspectionId) ==
  {k \in 1 .. Len(dbPhotos) : dbPhotos[k].inspection_id = inspectionId}

\* Mutant of QueryPhotos: no ORDER BY, the rows come in insertion order.
QueryPhotos_Unordered(inspectionId) ==
  LET rows == RowsOf(inspectionId)
      n == Cardinality(rows)
  IN {[a \in 1 .. n |-> dbPhotos[f[a]]] :
        f \in {g \in [1 .. n -> rows] : \A a, b \in 1 .. n : a < b => g[a] < g[b]}}

\* SELECT * FROM photos WHERE inspection_id = ? ORDER BY timestamp ASC: every
\* arrangement of the matching rows that is ascending in timestamp (SQL leaves
\* the order of rows with equal timestamps open).
QueryPhotos(inspectionId) ==
  LET rows == RowsOf(inspectionId)
      n == Cardinality(rows)
  IN {[a \in 1 .. n |-> dbPhotos[f[a]]] :
        f \in {g \in [1 .. n -> rows] :
                 /\ \A a, b \in 1 .. n : a # b => g[a] # g[b]
                 /\ \A a, b \in 1 .. n :
                      a < b => dbPhotos[g[a]].timestamp <= dbPhotos[g[b]].timestamp}}

getPhotosForInspection(inspectionId) ==
  /\ dbListed' \in QueryPhotos(inspectionId)
  /\ dbCall' = StoreCall("getPhotosForInspection", "returned")
  /\ UNCHANGED <<dbPhotos, dbInspections>>

\* The row createInspection writes: created_at and updated_at are both now.
InspectionRow(inspection) ==
  [id |-> inspection.id, client |-> inspection.client, address |-> inspection.address,
   claim_number |-> inspection.claim_number,
   inspection_date |-> inspection.inspection_date,
   audio_uri |-> inspection.audio_uri,
   firebase_audio_url |-> inspection.firebase_audio_url,
   status |-> inspection.status, created_at |-> now, updated_at |-> now]

HasInspection(id) == \E k \in 1 .. Len(dbInspections) : dbInspections[k].id = id

\* Mutant of InsertInspection: INSERT OR REPLACE, the row takes the place of the
\* one holding its id.
InsertInspection_Replace(row) ==
  IF HasInspection(row.id)
  THEN [k \in 1 .. Len(dbInspections) |->
          IF dbInspections[k].id = row.id THEN row ELSE dbInspections[k]]
  ELSE Append(dbInspections, row)

\* INSERT INTO inspections: the row is appended, unless the PRIMARY KEY id is
\* taken, in which case executeSync throws and the table is unchanged.
InsertInspection(row) ==
  IF HasInspection(row.id) THEN dbInspections ELSE Append(dbInspections, row)

\* Mutant of InspectionDatabase_createInspection: the row is written without
\* the caller's client.
InspectionDatabase_createInspection_NoClient(inspection) ==
  /\ dbInspections' =
       InsertInspection([InspectionRow(inspection) EXCEPT !.client = "null"])
  /\ dbCall' = StoreCall("createInspection",
                         IF HasInspection(inspection.id)
                         THEN "constraint failed" ELSE "returned")
  /\ UNCHANGED <<dbPhotos, dbListed>>

\* InspectionDatabase.createInspection(inspection).
InspectionDatabase_createInspection(inspection) ==
  /\ dbInspections' = InsertInspection(InspectionRow(inspection))
  /\ dbCall' = StoreCall("createInspection",
                         IF HasInspection(inspection.id)
                         THEN "constraint failed" ELSE "returned")
  /\ UNCHANGED <<dbPhotos, dbListed>>

\* Mutant of QueryInspections: ORDER BY created_at ASC.
QueryInspections_Ascending ==
  LET n == Len(dbInspections)
  IN {[a \in 1 .. n |-> dbInspections[f[a]]] :
        f \in {g \in [1 .. n -> 1 .. n] :
                 /\ \A a, b \in 1 .. n : a # b => g[a] # g[b]
                 /\ \A a, b \in 1 .. n :
                      a < b => dbInspections[g[a]].created_at
                                 <= dbInspections[g[b]].created_at}}

\* SELECT * FROM inspections ORDER BY created_at DESC: every arrangement of the
\* rows that is descending in created_at (SQL leaves the order of rows with
\* equal created_at open).
QueryInspections ==
  LET n == Len(dbInspections)
  IN {[a \in 1 .. n |-> dbInspections[f[a]]] :
        f \in {g \in [1 .. n -> 1 .. n] :
                 /\ \A a, b \in 1 .. n : a # b => g[a] # g[b]
                 /\ \A a, b \in 1 .. n :
                      a < b => dbInspections[g[a]].created_at
                                 >= dbInspections[g[b]].created_at}}

getInspections ==
  /\ \E rows \in QueryInspections :
       dbCall' = [method |-> "getInspections", outcome |-> "returned", rows |-> rows]
  /\ UNCHANGED <<dbPhotos, dbListed, dbInspections>>

\* Mutant of UpdateInspections: the UPDATE has no WHERE clause.
UpdateInspections_NoWhere(inspectionId, column, value) ==
  [k \in 1 .. Len(dbInspections) |->
     [dbInspections[k] EXCEPT ![column] = value, !.updated_at = now]]

\* UPDATE inspections SET column = value, updated_at = now WHERE id = ?: the
\* rows with that id are rewritten; with no such row the statement changes
\* nothing and executeSync returns all the same.
UpdateInspections(inspectionId, column, value) ==
  [k \in 1 .. Len(dbInspections) |->
     IF dbInspections[k].id = inspectionId
     THEN [dbInspections[k] EXCEPT ![column] = value, !.updated_at = now]
     ELSE dbInspections[k]]

updateInspectionAudio(inspectionId, audioUri) ==
  /\ dbInspections' = UpdateInspections(inspectionId, "audio_uri", audioUri)
  /\ dbCall' = StoreCall("updateInspectionAudio", "returned")
  /\ UNCHANGED <<dbPhotos, dbListed>>

InspectionDatabase_updateInspectionFirebaseAudioUrl(inspectionId, firebaseUrl) ==
  /\ dbInspections' = UpdateInspections(inspectionId, "firebase_audio_url", firebaseUrl)
  /\ dbCall' = StoreCall("updateInspectionFirebaseAudioUrl", "returned")
  /\ UNCHANGED <<dbPhotos, dbListed>>

\* UPDATE photos SET firebase_url = ? WHERE id = ?.
updatePhotoFirebaseUrl(photoId, firebaseUrl) ==
  /\ dbPhotos' = [k \in 1 .. Len(dbPhotos) |->
                    IF dbPhotos[k].id = photoId
                    THEN [dbPhotos[k] EXCEPT !.firebase_url = firebaseUrl]
                    ELSE dbPhotos[k]]
  /\ dbCall' = StoreCall("updatePhotoFirebaseUrl", "returned")
  /\ UNCHANGED <<dbInspections, dbListed>>

InspectionDatabase_updateInspectionStatus(inspectionId, status) ==
  /\ dbInspections' = UpdateInspections(inspectionId, "status", status)
  /\ dbCall' = StoreCall("updateInspectionStatus", "returned")
  /\ UNCHANGED <<dbPhotos, dbListed>>

----------------------------------------------------------------------------
(* TranscriptionService                                                    *)

DefaultConfidence == 80   \* confidence 0.8, in hundredths

\* The confidence field of a segment the speech service gave no confidence for.
NoConfidence == -1

\* Segment lists the speech service may return, in seconds, with confidences
\* in hundredths: one given as 0.95, one missing and one given as 0.  A text is
\* the sequence of its words and spaces.
ServiceTranscripts ==
  { <<>>,
    << [start |-> 0, end |-> 2, text |-> <<"a">>, confidence |-> 95],
       [start |-> 5, end |-> 7, text |-> <<"b">>, confidence |-> NoConfidence],
       [start |-> 9, end |-> 11, text |-> <<"c">>, confidence |-> 0] >> }

\* The segments of the result transcribeAudio returns.
TranscriptionSegments(serviceSegments) ==
  [k \in 1 .. Len(serviceSegments) |->
     [start      |-> serviceSegments[k].start * 1000,
      end        |-> serviceSegments[k].end * 1000,
      text       |-> serviceSegments[k].text,
      confidence |-> IF serviceSegments[k].confidence \in {NoConfidence, 0}
                     THEN DefaultConfidence
                     ELSE serviceSegments[k].confidence]]

Abs(x) == IF x < 0 THEN 0 - x ELSE x

\* Mutant of SelectTexts: a segment whose start or end is exactly contextRange
\* away is left out.
RECURSIVE SelectTexts_Strict(_, _, _)
SelectTexts_Strict(segments, timestamp, contextRange) ==
  IF segments = <<>> THEN <<>>
  ELSE LET segment == Head(segments)
           rest == SelectTexts_Strict(Tail(segments), timestamp, contextRange)
       IN IF \/ Abs(segment.start - timestamp) < contextRange
             \/ Abs(segment.end - timestamp) < contextRange
          THEN <<segment.text>> \o rest
          ELSE rest

\* segments.filter(...).map(segment => segment.text)
RECURSIVE SelectTexts(_, _, _)
SelectTexts(segments, timestamp, contextRange) ==
  IF segments = <<>> THEN <<>>
  ELSE LET segment == Head(segments)
           rest == SelectTexts(Tail(segments), timestamp, contextRange)
       IN IF \/ Abs(segment.start - timestamp) <= contextRange
             \/ Abs(segment.end - timestamp) <= contextRange
          THEN <<segment.text>> \o rest
          ELSE rest

Space == " "

\* texts.join(' ')
RECURSIVE Join(_)
Join(texts) ==
  IF texts = <<>> THEN <<>>
  ELSE IF Len(texts) = 1 THEN texts[1]
  ELSE texts[1] \o <<Space>> \o Join(Tail(texts))

RECURSIVE TrimStart(_)
TrimStart(text) ==
  IF text # <<>> /\ Head(text) = Space THEN TrimStart(Tail(text)) ELSE text

RECURSIVE TrimEnd(_)
TrimEnd(text) ==
  IF text # <<>> /\ text[Len(text)] = Space
  THEN TrimEnd(SubSeq(text, 1, Len(text) - 1))
  ELSE text

\* text.trim()
Trim(text) == TrimEnd(TrimStart(text))

\* getContextAroundTimestamp: the texts of the relevant segments joined in
\* segment order and trimmed (empty exactly when nothing but spaces is left).
getContextAroundTimestamp(segments, timestamp, contextRange) ==
  Trim(Join(SelectTexts(segments, timestamp, contextRange)))

ContextRange == 3000

DefaultContextRange == 5000

MaxSegments == 3

\* The segments a caller may pass, in milliseconds.
SegmentPool ==
  { [start |-> 0, end |-> 2000, text |-> <<"a">>, confidence |-> 95],
    [start |-> 5000, end |-> 7000, text |-> <<"b">>, confidence |-> 80],
    [start |-> 9000, end |-> 11000, text |-> <<"c">>, confidence |-> 95],
    [start |-> 7000, end |-> 8000, text |-> <<Space, "d", Space>>, confidence |-> 95],
    [start |-> 0, end |-> 12000, text |-> <<"e">>, confidence |-> 95] }

SegmentLists == UNION {[1 .. n -> SegmentPool] : n \in 0 .. MaxSegments}

ContextTimestamps == {0, 5500, 6000, 12000}

ContextRanges == {0, ContextRange, DefaultContextRange}

NoContextCall ==
  [segments |-> <<>>, timestamp |-> 0, contextRange |-> 0,
   returned |-> FALSE, result |-> <<>>]

InitContextIdle == ctxCall = NoContextCall

\* The arguments of a call of getContextAroundTimestamp.
InitContextCall ==
  \E segments \in SegmentLists, timestamp \in ContextTimestamps,
     contextRange \in ContextRanges :
    ctxCall = [segments |-> segments, timestamp |-> timestamp,
               contextRange |-> contextRange, returned |-> FALSE, result |-> <<>>]

\* The call returns.
ContextReturned ==
  /\ ~ctxCall.returned
  /\ ctxCall' =
       [ctxCall EXCEPT
          !.returned = TRUE,
          !.result = getContextAroundTimestamp(ctxCall.segments, ctxCall.timestamp,
                                               ctxCall.contextRange)]

----------------------------------------------------------------------------
(* FirestoreService and InspectionAnalysisService                          *)

NoPhotoId == ""

FsPhotoIds == {"photo-1", "photo-2", "photo-3", "photo-4"}

\* The audio timestamps of the photo documents, by position in the listing.
FsAudioTimestamps == <<6000, 0, 20000, 10000>>

FsPhotoIdAt(k) == CASE k = 1 -> "photo-1" [] k = 2 -> "photo-2"
                    [] k = 3 -> "photo-3" [] OTHER -> "photo-4"

FsPhoto(k, hasId) ==
  [id |-> IF hasId THEN FsPhotoIdAt(k) ELSE NoPhotoId,
   audioTimestamp |-> FsAudioTimestamps[k],
   caption |-> ""]

NoTranscription == [segments |-> <<>>, failed |-> FALSE]

NoAnalysisResult == [status |-> "none", error |-> "", photoCaptions |-> <<>>]

InitAnalysisIdle ==
  /\ fsInspection = [exists |-> FALSE, firebaseAudioUrl |-> "", status |-> "DRAFT"]
  /\ fsPhotos = <<>>
  /\ anaPc = "idle"
  /\ anaTranscription = NoTranscription
  /\ anaPhotos = <<>>
  /\ anaCaptions = <<>>
  /\ anaRequestFailed = <<>>
  /\ anaPersistFailed = <<>>
  /\ anaStages = {}
  /\ anaResult = NoAnalysisResult

\* The documents in Firestore when analysis is first asked for.
InitAnalysis ==
  /\ \E exists \in BOOLEAN, url \in {"", "gs://audio"} :
       fsInspection = [exists |-> exists, firebaseAudioUrl |-> url, status |-> "DRAFT"]
  /\ \E n \in 0 .. MaxFsPhotos : \E noId \in 0 .. n :
       fsPhotos = [k \in 1 .. n |-> FsPhoto(k, k # noId)]
  /\ anaPc = "idle"
  /\ anaTranscription = NoTranscription
  /\ anaPhotos = <<>>
  /\ anaCaptions = <<>>
  /\ anaRequestFailed = <<>>
  /\ anaPersistFailed = <<>>
  /\ anaStages = {}
  /\ anaResult = NoAnalysisResult

\* updateInspectionStatus: updateDoc sets the status field of the document.
updateInspectionStatus(status) == [fsInspection EXCEPT !.status = status]

\* A write to the inspection document can succeed only if the document exists.
WriteOutcomes == IF fsInspection.exists THEN {"ok", "failed"} ELSE {"failed"}

\* catch (error): the message is kept and the ERROR status write is issued.
Catch(message) ==
  /\ anaPc' = "setError"
  /\ anaResult' = [NoAnalysisResult EXCEPT !.error = message]

\* analyzeInspection(inspectionId) is called: getInspection is awaited.
StartAnalysis ==
  /\ anaPc \in {"idle", "done"}
  /\ anaPc' = "getInspection"
  /\ anaStages' = {"load"}
  /\ anaTranscription' = NoTranscription
  /\ anaPhotos' = <<>>
  /\ anaCaptions' = <<>>
  /\ anaRequestFailed' = <<>>
  /\ anaPersistFailed' = <<>>
  /\ anaResult' = NoAnalysisResult
  /\ UNCHANGED <<fsInspection, fsPhotos>>

\* Mutant of InspectionLoaded: an inspection without firebaseAudioUrl is passed
\* on to transcription.
InspectionLoaded_NoAudioCheck(outcome) ==
  /\ anaPc = "getInspection"
  /\ IF outcome = "failed" THEN Catch("Failed to get inspection") /\ UNCHANGED anaStages
     ELSE IF ~fsInspection.exists THEN Catch("Inspection not found") /\ UNCHANGED anaStages
     ELSE /\ anaPc' = "transcribe"
          /\ anaStages' = anaStages \cup {"transcribe"}
          /\ UNCHANGED anaResult
  /\ UNCHANGED <<fsInspection, fsPhotos, anaTranscription, anaPhotos,
                 anaCaptions, anaRequestFailed, anaPersistFailed>>

\* getInspection returns or throws; steps 1 and 2 of the pipeline.
InspectionLoaded(outcome) ==
  /\ anaPc = "getInspection"
  /\ IF outcome = "failed" THEN Catch("Failed to get inspection") /\ UNCHANGED anaStages
     ELSE IF ~fsInspection.exists THEN Catch("Inspection not found") /\ UNCHANGED anaStages
     ELSE IF fsInspection.firebaseAudioUrl = ""
     THEN Catch("No audio file found for inspection") /\ UNCHANGED anaStages
     ELSE /\ anaPc' = "transcribe"
          /\ anaStages' = anaStages \cup {"transcribe"}
          /\ UNCHANGED anaResult
  /\ UNCHANGED <<fsInspection, fsPhotos, anaTranscription, anaPhotos,
                 anaCaptions, anaRequestFailed, anaPersistFailed>>

\* Mutant of TranscriptionFailed: the failure is swallowed and the run goes on
\* with an empty transcript.
TranscriptionFailed_Swallowed ==
  /\ anaPc = "transcribe"
  /\ anaTranscription' = [segments |-> <<>>, failed |-> TRUE]
  /\ anaPc' = "getPhotos"
  /\ anaStages' = anaStages \cup {"list"}
  /\ UNCHANGED <<fsInspection, fsPhotos, anaPhotos, anaCaptions, anaRequestFailed,
                 anaPersistFailed, anaResult>>

\* transcribeAudio throws 'Transcription failed: ...'.
TranscriptionFailed ==
  /\ anaPc = "transcribe"
  /\ Catch("Transcription failed")
  /\ anaTranscription' = [segments |-> <<>>, failed |-> TRUE]
  /\ UNCHANGED <<fsInspection, fsPhotos, anaPhotos, anaCaptions, anaRequestFailed,
                 anaPersistFailed, anaStages>>

\* transcribeAudio returns; getPhotosForInspection is awaited.
Transcribed(serviceSegments) ==
  /\ anaPc = "transcribe"
  /\ anaTranscription' = [segments |-> TranscriptionSegments(serviceSegments),
                           failed |-> FALSE]
  /\ anaPc' = "getPhotos"
  /\ anaStages' = anaStages \cup {"list"}
  /\ UNCHANGED <<fsInspection, fsPhotos, anaPhotos, anaCaptions, anaRequestFailed,
                 anaPersistFailed, anaResult>>

\* photos.filter(photo => photo.id)
ValidPhotos(photos) == SelectSeq(photos, LAMBDA photo : photo.id # NoPhotoId)

\* The CaptionRequest built for one photo.
CaptionRequestFor(photo, segments) ==
  LET audioContext == getContextAroundTimestamp(segments, photo.audioTimestamp, ContextRange)
  IN [photoTimestamp |-> photo.audioTimestamp,
      audioContext   |-> IF audioContext = <<>>
                         THEN <<"No audio context available">>
                         ELSE audioContext]

\* Mutant of CaptionsBatchResult: the items' promises without their .catch handler.
CaptionsBatchResult_NoCatch(requests, replies) ==
  [k \in 1 .. Len(requests) |-> generateCaption(requests[k], replies[k]).value]

\* What generateCaptionsBatch returns for these requests and these answers of
\* the caption service: item k is the caught generateCaption of request k.
CaptionsBatchResult(requests, replies) ==
  [k \in 1 .. Len(requests) |->
     LET promise == generateCaption(requests[k], replies[k])
     IN IF promise.state = "rejected" THEN FailedCaption(requests[k]) ELSE promise.value]

\* Mutant of PhotoCaptionsFor: the requests are built from the unfiltered list,
\* so that a photo without id shifts the requests of the photos after it.
PhotoCaptionsFor_UnfilteredRequests(photos, segments, replies) ==
  LET validPhotos == ValidPhotos(photos)
      captionRequests == [k \in 1 .. Len(validPhotos) |->
                            CaptionRequestFor(photos[k], segments)]
      captionResults == CaptionsBatchResult(captionRequests, replies)
  IN [k \in 1 .. Len(validPhotos) |->
        [photoId      |-> validPhotos[k].id,
         caption      |-> IF captionResults[k].caption = ""
                          THEN "No caption generated"
                          ELSE captionResults[k].caption,
         confidence   |-> captionResults[k].confidence,
         audioContext |-> IF captionResults[k].context = <<>>
                          THEN <<"No context">>
                          ELSE captionResults[k].context,
         timestamp    |-> validPhotos[k].audioTimestamp]]

\* generateCaptionsForPhotos: the PhotoCaptionResult list.
PhotoCaptionsFor(photos, segments, replies) ==
  LET validPhotos == ValidPhotos(photos)
      captionRequests == [k \in 1 .. Len(validPhotos) |->
                            CaptionRequestFor(validPhotos[k], segments)]
      captionResults == CaptionsBatchResult(captionRequests, replies)
  IN [k \in 1 .. Len(validPhotos) |->
        [photoId      |-> validPhotos[k].id,
         caption      |-> IF captionResults[k].caption = ""
                          THEN "No caption generated"
                          ELSE captionResults[k].caption,
         confidence   |-> captionResults[k].confidence,
         audioContext |-> IF captionResults[k].context = <<>>
                          THEN <<"No context">>
                          ELSE captionResults[k].context,
         timestamp    |-> validPhotos[k].audioTimestamp]]

\* getPhotosForInspection throws.
PhotoListingFailed ==
  /\ anaPc = "getPhotos"
  /\ Catch("Failed to get photos")
  /\ UNCHANGED <<fsInspection, fsPhotos, anaTranscription, anaPhotos,
                 anaCaptions, anaRequestFailed, anaPersistFailed, anaStages>>

\* Mutant of PhotosListed: an empty photo list is thrown as an error.
PhotosListed_EmptyIsError ==
  /\ anaPc = "getPhotos"
  /\ anaPhotos' = fsPhotos
  /\ anaStages' = anaStages \cup {"context", "captions"}
  /\ IF fsPhotos = <<>>
     THEN Catch("No photos found for inspection")
     ELSE anaPc' = "captions" /\ UNCHANGED anaResult
  /\ UNCHANGED <<fsInspection, fsPhotos, anaTranscription, anaCaptions,
                 anaRequestFailed, anaPersistFailed>>

\* getPhotosForInspection returns; the requests are built and
\* generateCaptionsBatch is awaited.
PhotosListed ==
  /\ anaPc = "getPhotos"
  /\ anaPhotos' = fsPhotos
  /\ anaPc' = "captions"
  /\ anaStages' = anaStages \cup {"context", "captions"}
  /\ UNCHANGED <<fsInspection, fsPhotos, anaTranscription, anaCaptions,
                 anaRequestFailed, anaPersistFailed, anaResult>>

\* generateCaptionsBatch returns; updatePhotosWithCaptions is awaited.
CaptionsGenerated(replies) ==
  /\ anaPc = "captions"
  /\ anaRequestFailed' =
       [k \in DOMAIN replies |-> ReplyThrows(replies[k])]
  /\ anaCaptions' = PhotoCaptionsFor(anaPhotos, anaTranscription.segments, replies)
  /\ anaPc' = "persist"
  /\ anaStages' = anaStages \cup {"persist"}
  /\ UNCHANGED <<fsInspection, fsPhotos, anaTranscription, anaPhotos,
                 anaPersistFailed, anaResult>>

\* updatePhotoCaption(photoId, caption) on the photo documents.
updatePhotoCaption(photos, photoId, caption) ==
  [k \in 1 .. Len(photos) |->
     IF photos[k].id = photoId THEN [photos[k] EXCEPT !.caption = caption] ELSE photos[k]]

\* Mutant of PersistCaptions: no try/catch around the single update, the first
\* failed update ends the pass and the later captions are not written.
RECURSIVE PersistCaptions_AbortOnFailure(_, _, _)
PersistCaptions_AbortOnFailure(photos, photoCaptions, failed) ==
  IF photoCaptions = <<>> \/ Head(failed) THEN photos
  ELSE PersistCaptions_AbortOnFailure(
         updatePhotoCaption(photos, Head(photoCaptions).photoId,
                            Head(photoCaptions).caption),
         Tail(photoCaptions), Tail(failed))

RECURSIVE PersistCaptions(_, _, _)
PersistCaptions(photos, photoCaptions, failed) ==
  IF photoCaptions = <<>> THEN photos
  ELSE LET photoCaption == Head(photoCaptions)
           written == IF Head(failed) THEN photos
                      ELSE updatePhotoCaption(photos, photoCaption.photoId,
                                              photoCaption.caption)
       IN PersistCaptions(written, Tail(photoCaptions), Tail(failed))

\* updatePhotosWithCaptions returns: every update has been tried, the failed
\* ones are logged and skipped; the READY status write is awaited.
CaptionsPersisted(failed) ==
  /\ anaPc = "persist"
  /\ fsPhotos' = PersistCaptions(fsPhotos, anaCaptions, failed)
  /\ anaPersistFailed' = failed
  /\ anaPc' = "setReady"
  /\ anaStages' = anaStages \cup {"ready"}
  /\ UNCHANGED <<fsInspection, anaTranscription, anaPhotos, anaCaptions,
                 anaRequestFailed, anaResult>>

\* The READY status write returns or throws.
ReadyWritten(outcome) ==
  /\ anaPc = "setReady"
  /\ IF outcome = "ok"
     THEN /\ fsInspection' = updateInspectionStatus("READY")
          /\ anaPc' = "done"
          /\ anaStages' = anaStages \cup {"readyWritten"}
          /\ anaResult' = [status |-> "COMPLETED", error |-> "",
                            photoCaptions |-> anaCaptions]
     ELSE /\ Catch("Failed to update inspection status")
          /\ UNCHANGED <<fsInspection, anaStages>>
  /\ UNCHANGED <<fsPhotos, anaTranscription, anaPhotos, anaCaptions,
                 anaRequestFailed, anaPersistFailed>>

\* Mutant of ErrorWritten: a failing ERROR status write is not caught.
ErrorWritten_Uncaught(outcome) ==
  /\ anaPc = "setError"
  /\ anaPc' = "done"
  /\ IF outcome = "ok"
     THEN /\ fsInspection' = updateInspectionStatus("ERROR")
          /\ anaStages' = anaStages \cup {"error", "errorWritten"}
          /\ anaResult' = [anaResult EXCEPT !.status = "FAILED"]
     ELSE /\ UNCHANGED fsInspection
          /\ anaStages' = anaStages \cup {"error"}
          /\ anaResult' = [anaResult EXCEPT !.status = "THROWN"]
  /\ UNCHANGED <<fsPhotos, anaTranscription, anaPhotos, anaCaptions,
                 anaRequestFailed, anaPersistFailed>>

\* The ERROR status write of the catch block returns or throws; either way the
\* call returns the FAILED result.
ErrorWritten(outcome) ==
  /\ anaPc = "setError"
  /\ anaPc' = "done"
  /\ IF outcome = "ok"
     THEN /\ fsInspection' = updateInspectionStatus("ERROR")
          /\ anaStages' = anaStages \cup {"error", "errorWritten"}
     ELSE /\ UNCHANGED fsInspection
          /\ anaStages' = anaStages \cup {"error"}
  /\ anaResult' = [anaResult EXCEPT !.status = "FAILED"]
  /\ UNCHANGED <<fsPhotos, anaTranscription, anaPhotos, anaCaptions,
                 anaRequestFailed, anaPersistFailed>>

----------------------------------------------------------------------------
(* FirestoreService: createInspection, addPhoto, deleteInspection          *)

\* The claim numbers createNewInspection may send; the other fields of the
\* payload are the same in every call.
ClaimNumbers == {"CLM-1", "CLM-2"}

InitRemoteIdle ==
  /\ fsCreated = <<>>
  /\ fsAutoIds = 0
  /\ delPc = "idle"
  /\ delQueue = <<>>

\* addDoc(collection(firestore, 'inspections'), ...): the id of the new
\* document is generated, a different one for every call.
InspectionDocId ==
  CASE Len(fsCreated) = 0 -> "auto-1"
    [] Len(fsCreated) = 1 -> "auto-2"
    [] Len(fsCreated) = 2 -> "auto-3"
    [] OTHER -> "auto-4"

\* createInspection(inspection): addDoc returns the new id, or throws and adds
\* nothing.
createInspection(claimNumber, outcome) ==
  /\ Len(fsCreated) < MaxDocs
  /\ fsCreated' =
       IF outcome = "ok"
       THEN Append(fsCreated, [id |-> InspectionDocId,
                               claimNumber |-> claimNumber, status |-> "DRAFT"])
       ELSE fsCreated
  /\ UNCHANGED <<fsAutoIds, delPc, delQueue, fsInspection, fsPhotos>>

\* FirestoreService.addPhoto(photo): addDoc adds a photo document of the
\* inspection under a generated id, or throws and adds nothing.  A photo whose
\* data carries an empty id field is listed without id.
addPhotoDoc(hasId, outcome) ==
  /\ fsAutoIds < MaxFsPhotos
  /\ IF outcome = "ok"
     THEN /\ fsPhotos' = Append(fsPhotos, FsPhoto(fsAutoIds + 1, hasId))
          /\ fsAutoIds' = fsAutoIds + 1
     ELSE UNCHANGED <<fsPhotos, fsAutoIds>>
  /\ UNCHANGED <<fsCreated, delPc, delQueue, fsInspection>>

\* if (photo.id): the photos listed without id are passed over.
RECURSIVE SkipNoId(_)
SkipNoId(queue) ==
  IF queue # <<>> /\ Head(queue) = NoPhotoId THEN SkipNoId(Tail(queue)) ELSE queue

\* deleteDoc(doc(firestore, 'photos', id))
RemovePhotoDoc(id) == SelectSeq(fsPhotos, LAMBDA photo : photo.id # id)

\* The for loop goes on with the photos left: the next deleteDoc of a photo is
\* awaited, or after the last one the deleteDoc of the inspection.
DeleteGoesOn(queue) ==
  /\ delQueue' = SkipNoId(queue)
  /\ delPc' = IF SkipNoId(queue) = <<>> THEN "inspection" ELSE "photos"

\* catch (error) of deleteInspection: the error is logged and thrown again.
DeleteThrows ==
  /\ delPc' = "idle"
  /\ delQueue' = <<>>

\* deleteInspection(inspectionId) is called: getPhotosForInspection is awaited.
deleteInspection ==
  /\ delPc = "idle"
  /\ delPc' = "listing"
  /\ UNCHANGED <<fsCreated, fsAutoIds, delQueue, fsInspection, fsPhotos>>

\* getPhotosForInspection returns the photos of the inspection, or throws.
DeletePhotosListed(ok) ==
  /\ delPc = "listing"
  /\ IF ok
     THEN DeleteGoesOn([k \in 1 .. Len(fsPhotos) |-> fsPhotos[k].id])
     ELSE DeleteThrows
  /\ UNCHANGED <<fsCreated, fsAutoIds, fsInspection, fsPhotos>>

\* deleteDoc of the next listed photo returns or throws.
DeletePhotoDoc(ok) ==
  /\ delPc = "photos"
  /\ IF ok
     THEN /\ fsPhotos' = RemovePhotoDoc(Head(delQueue))
          /\ DeleteGoesOn(Tail(delQueue))
     ELSE DeleteThrows /\ UNCHANGED fsPhotos
  /\ UNCHANGED <<fsCreated, fsAutoIds, fsInspection>>

\* deleteDoc of the inspection document returns or throws.
DeleteInspectionDoc(ok) ==
  /\ delPc = "inspection"
  /\ delPc' = "idle"
  /\ delQueue' = <<>>
  /\ fsInspection' = IF ok THEN [fsInspection EXCEPT !.exists = FALSE]
                      ELSE fsInspection
  /\ UNCHANGED <<fsCreated, fsAutoIds, fsPhotos>>

----------------------------------------------------------------------------
(* RecordingProvider: startRecording, stopRecording, resetRecording        *)

NoUri == ""

LocalAudioUri == "file://documents/inspection_audio.m4a"

RemoteAudioUrl == "gs://audio"

\* The state of useState at construction and after every reset of the state;
\* startTime 0 stands for undefined.
ClearedState ==
  [isRecording |-> FALSE, audioUri |-> NoUri, startTime |-> 0, duration |-> 0]

\* How a call ended: what it threw or returned, and for stopRecording how far
\* the upload to Firebase got ("none": not asked for).
NoCall == [outcome |-> "none", error |-> "", uri |-> NoUri, remote |-> "none"]

Threw(message) ==
  [outcome |-> "threw", error |-> message, uri |-> NoUri, remote |-> "none"]

Returned(uri) ==
  [outcome |-> "returned", error |-> "", uri |-> uri, remote |-> "none"]

InitRecording ==
  /\ now = 1
  /\ recordingState = ClearedState
  /\ recordingRef = 0
  /\ intervalRef = 0
  /\ timers = {}
  /\ prepared = {}
  /\ handles = 0
  /\ startPc = "idle"
  /\ lastStart = NoCall
  /\ stopPc = "idle"
  /\ stopInspectionId = FALSE
  /\ stopHandle = 0
  /\ stopFirebaseUrl = ""
  /\ lastStop = NoCall
  /\ startInterrupted = FALSE

\* Time passes.
AdvanceClock ==
  /\ now < MaxClock
  /\ now' = now + 1
  /\ UNCHANGED <<recordingState, recordingRef, intervalRef, timers, prepared, handles,
                 startPc, lastStart, startInterrupted, stopPc, stopInspectionId, stopHandle, stopFirebaseUrl,
                 lastStop>>

\* A live setInterval timer fires: duration: Date.now() - (prev.startTime || startTime).
Tick(timer) ==
  /\ timer \in timers
  /\ recordingState' =
       [recordingState EXCEPT !.duration =
          now - (IF recordingState.startTime # 0
                 THEN recordingState.startTime ELSE timer.startTime)]
  /\ UNCHANGED <<now, recordingRef, intervalRef, timers, prepared, handles,
                 startPc, lastStart, startInterrupted, stopPc, stopInspectionId, stopHandle, stopFirebaseUrl,
                 lastStop>>

\* startRecording() is called: Audio.requestPermissionsAsync is awaited.
startRecording ==
  /\ startPc = "idle"
  /\ handles < MaxStarts
  /\ startPc' = "permission"
  /\ lastStart' = NoCall
  /\ startInterrupted' = FALSE
  /\ UNCHANGED <<now, recordingState, recordingRef, intervalRef, timers, prepared,
                 handles, stopPc, stopInspectionId, stopHandle, stopFirebaseUrl, lastStop>>

\* Mutant of StartThrows: the state is set to recording before the steps that
\* can throw.
StartThrows_StateSet(message) ==
  /\ startPc' = "idle"
  /\ lastStart' = Threw(message)
  /\ startInterrupted' = FALSE
  /\ recordingState' =
       [isRecording |-> TRUE, audioUri |-> NoUri, startTime |-> now, duration |-> 0]
  /\ UNCHANGED <<now, recordingRef, intervalRef, timers, prepared,
                 handles, stopPc, stopInspectionId, stopHandle, stopFirebaseUrl, lastStop>>

\* catch (error) of startRecording: the error is logged and thrown again.
StartThrows(message) ==
  /\ startPc' = "idle"
  /\ lastStart' = Threw(message)
  /\ startInterrupted' = FALSE
  /\ UNCHANGED <<now, recordingState, recordingRef, intervalRef, timers, prepared,
                 handles, stopPc, stopInspectionId, stopHandle, stopFirebaseUrl,
                 lastStop>>

\* The permission request is answered; setAudioModeAsync is awaited.
PermissionAnswered(status) ==
  /\ startPc = "permission"
  /\ IF status = "granted"
     THEN /\ startPc' = "audioMode"
          /\ UNCHANGED <<now, recordingState, recordingRef, intervalRef, timers,
                         prepared, handles, lastStart, startInterrupted, stopPc, stopInspectionId, stopHandle, stopFirebaseUrl,
                 lastStop>>
     ELSE StartThrows("Audio permission not granted")

\* setAudioModeAsync returns or throws; Audio.Recording.createAsync is awaited.
AudioModeSet(ok) ==
  /\ startPc = "audioMode"
  /\ IF ok
     THEN /\ startPc' = "create"
          /\ UNCHANGED <<now, recordingState, recordingRef, intervalRef, timers,
                         prepared, handles, lastStart, startInterrupted, stopPc, stopInspectionId, stopHandle, stopFirebaseUrl,
                 lastStop>>
     ELSE StartThrows("setAudioModeAsync failed")

\* Audio.Recording.createAsync throws (always possible; the library refuses a
\* second recording while one is prepared).
CreateFailed ==
  /\ startPc = "create"
  /\ StartThrows("createAsync failed")

\* Mutant of RecordingCreated: createAsync prepares a second recording while one
\* is prepared.
RecordingCreated_NoBusyCheck ==
  /\ startPc = "create"
  /\ handles' = handles + 1
  /\ prepared' = prepared \cup {handles + 1}
  /\ recordingRef' = handles + 1
  /\ recordingState' =
       [isRecording |-> TRUE, audioUri |-> NoUri, startTime |-> now, duration |-> 0]
  /\ intervalRef' = handles + 1
  /\ timers' = timers \cup {[id |-> handles + 1, startTime |-> now]}
  /\ startPc' = "idle"
  /\ lastStart' = Returned(NoUri)
  /\ startInterrupted' = FALSE
  /\ UNCHANGED <<now, stopPc, stopInspectionId, stopHandle, stopFirebaseUrl, lastStop>>

\* Audio.Recording.createAsync returns a recording: the ref, the state and the
\* duration timer are set.
RecordingCreated ==
  /\ startPc = "create"
  /\ prepared = {}
  /\ handles' = handles + 1
  /\ prepared' = {handles + 1}
  /\ recordingRef' = handles + 1
  /\ recordingState' =
       [isRecording |-> TRUE, audioUri |-> NoUri, startTime |-> now, duration |-> 0]
  /\ intervalRef' = handles + 1
  /\ timers' = timers \cup {[id |-> handles + 1, startTime |-> now]}
  /\ startPc' = "idle"
  /\ lastStart' = Returned(NoUri)
  /\ startInterrupted' = FALSE
  /\ UNCHANGED <<now, stopPc, stopInspectionId, stopHandle, stopFirebaseUrl,
                 lastStop>>

\* clearInterval(intervalRef.current)
ClearInterval == {timer \in timers : timer.id # intervalRef}

\* Mutant of StopCatch: the catch block leaves the recording state as it is.
StopCatch_NoReset(message) ==
  /\ lastStop' = Threw(message)
  /\ UNCHANGED recordingState

\* catch (error) of stopRecording: the state is reset and the error thrown again.
StopCatch(message) ==
  /\ recordingState' = ClearedState
  /\ lastStop' = Threw(message)

\* stopRecording() is called with no recording in the ref (an earlier call may
\* still be awaiting its file move or upload): it throws before the first await.
StopNoRecording ==
  /\ recordingRef = 0
  /\ StopCatch("No active recording")
  /\ startInterrupted' = (startInterrupted \/ startPc # "idle")
  /\ UNCHANGED <<now, recordingRef, intervalRef, timers, prepared, handles,
                 startPc, lastStart, stopPc, stopInspectionId, stopHandle, stopFirebaseUrl>>

\* stopRecording(inspectionId?) is called with a recording in the ref:
\* stopAndUnloadAsync is awaited.  One such call is followed at a time.
stopRecording(withInspectionId) ==
  /\ recordingRef # 0
  /\ stopPc = "idle"
  /\ stopPc' = "stopping"
  /\ stopInspectionId' = withInspectionId
  /\ stopHandle' = recordingRef
  /\ stopFirebaseUrl' = ""
  /\ lastStop' = NoCall
  /\ startInterrupted' = (startInterrupted \/ startPc # "idle")
  /\ UNCHANGED <<now, recordingState, recordingRef, intervalRef, timers, prepared,
                 handles, startPc, lastStart>>

\* The call goes on to its next await.
StopAwaits(pc) ==
  /\ stopPc' = pc
  /\ UNCHANGED <<stopInspectionId, stopHandle, stopFirebaseUrl>>

\* The call is over: its locals are gone.
StopEnds ==
  /\ stopPc' = "idle"
  /\ stopInspectionId' = FALSE
  /\ stopHandle' = 0
  /\ stopFirebaseUrl' = ""

\* stopAndUnloadAsync throws; the recorder may or may not have been released.
StopUnloadFailed(released) ==
  /\ stopPc = "stopping"
  /\ StopCatch("stopAndUnloadAsync failed")
  /\ StopEnds
  /\ prepared' = IF released THEN prepared \ {stopHandle} ELSE prepared
  /\ UNCHANGED <<now, recordingRef, intervalRef, timers, handles, startPc, lastStart, startInterrupted>>

\* stopAndUnloadAsync returns: the timer is cleared and the URI is read from
\* recordingRef.current; FileSystem.moveAsync is awaited.
StopUnloaded(uri) ==
  /\ stopPc = "stopping"
  /\ timers' = IF intervalRef # 0 THEN ClearInterval ELSE timers
  /\ intervalRef' = 0
  /\ prepared' = prepared \ {stopHandle}
  /\ IF recordingRef = 0
     THEN /\ StopCatch("recordingRef.current is null")
          /\ StopEnds
          /\ UNCHANGED recordingRef
     ELSE /\ recordingRef' = 0
          /\ IF uri = NoUri
             THEN StopCatch("Failed to get recording URI") /\ StopEnds
             ELSE /\ StopAwaits("moving")
                  /\ UNCHANGED <<recordingState, lastStop>>
  /\ UNCHANGED <<now, handles, startPc, lastStart, startInterrupted>>

\* Mutant of StopReturns: a failure of the upload or of the link is thrown to
\* the caller through the catch block.
StopReturns_RemoteFailureThrown(remote) ==
  IF remote \in {"upload failed", "link failed"}
  THEN /\ recordingState' = ClearedState
       /\ lastStop' = [Threw(remote) EXCEPT !.remote = remote]
       /\ StopEnds
  ELSE /\ recordingState' =
            [recordingState EXCEPT !.isRecording = FALSE, !.audioUri = LocalAudioUri]
       /\ lastStop' = [Returned(LocalAudioUri) EXCEPT !.remote = remote]
       /\ StopEnds

\* setRecordingState(prev => ...) at the end of stopRecording; return newUri.
StopReturns(remote) ==
  /\ recordingState' =
       [recordingState EXCEPT !.isRecording = FALSE, !.audioUri = LocalAudioUri]
  /\ lastStop' = [Returned(LocalAudioUri) EXCEPT !.remote = remote]
  /\ StopEnds

\* FileSystem.moveAsync returns or throws; with an inspectionId the upload is awaited.
StopMoved(ok) ==
  /\ stopPc = "moving"
  /\ IF ~ok THEN StopCatch("moveAsync failed") /\ StopEnds
     ELSE IF stopInspectionId
          THEN /\ StopAwaits("uploading")
               /\ UNCHANGED <<recordingState, lastStop>>
          ELSE StopReturns("none")
  /\ UNCHANGED <<now, recordingRef, intervalRef, timers, prepared, handles,
                 startPc, lastStart, startInterrupted>>

\* Mutant of StopUploaded: the link update is issued whether or not the upload
\* succeeded.
StopUploaded_LinkAlways(ok) ==
  /\ stopPc = "uploading"
  /\ stopPc' = "linking"
  /\ stopFirebaseUrl' = IF ok THEN RemoteAudioUrl ELSE ""
  /\ UNCHANGED <<stopInspectionId, stopHandle, recordingState, lastStop>>
  /\ UNCHANGED <<now, recordingRef, intervalRef, timers, prepared, handles,
                 startPc, lastStart, startInterrupted>>

\* firebaseStorage.uploadAudio returns or throws; on success firebaseUrl is set
\* to the download URL and the link update is awaited; a failure is logged and
\* the call goes on without the upload.
StopUploaded(ok) ==
  /\ stopPc = "uploading"
  /\ IF ok
     THEN /\ stopPc' = "linking"
          /\ stopFirebaseUrl' = RemoteAudioUrl
          /\ UNCHANGED <<stopInspectionId, stopHandle, recordingState, lastStop>>
     ELSE StopReturns("upload failed")
  /\ UNCHANGED <<now, recordingRef, intervalRef, timers, prepared, handles,
                 startPc, lastStart, startInterrupted>>

\* firestoreService.updateInspectionFirebaseAudioUrl returns or throws; a
\* failure is logged like a failed upload.
StopLinked(outcome) ==
  /\ stopPc = "linking"
  /\ StopReturns(IF outcome = "ok" THEN "linked" ELSE "link failed")
  /\ fsInspection' = IF outcome = "ok"
                      THEN [fsInspection EXCEPT !.firebaseAudioUrl = stopFirebaseUrl]
                      ELSE fsInspection
  /\ UNCHANGED <<now, recordingRef, intervalRef, timers, prepared, handles,
                 startPc, lastStart, startInterrupted>>

\* resetRecording(): stop and drop the recording, clear the timer, reset the state.
resetRecording ==
  /\ prepared' = IF recordingRef # 0 THEN prepared \ {recordingRef} ELSE prepared
  /\ recordingRef' = 0
  /\ timers' = IF intervalRef # 0 THEN ClearInterval ELSE timers
  /\ intervalRef' = 0
  /\ recordingState' = ClearedState
  /\ startInterrupted' = (startInterrupted \/ startPc # "idle")
  /\ UNCHANGED <<now, handles, startPc, lastStart, stopPc, stopInspectionId, stopHandle, stopFirebaseUrl,
                 lastStop>>

----------------------------------------------------------------------------
(* CameraScreen: takePicture                                               *)

CameraInspectionId == "inspection-1"

InitCamera ==
  /\ isTakingPhoto = FALSE
  /\ takePc = "idle"
  /\ takeDuration = 0
  /\ lastTake = "none"
  /\ takeError = ""
  /\ photosTaken = <<>>

\* finally { setIsTakingPhoto(false) } after the catch block's alert; the
\* closure of the call is gone.
TakeFails(error) ==
  /\ takePc' = "idle"
  /\ isTakingPhoto' = FALSE
  /\ takeDuration' = 0
  /\ lastTake' = "Error"
  /\ takeError' = error
  /\ UNCHANGED <<storeVars, photosTaken>>

\* takePicture() is called (the callback of the last render, which closed over
\* recordingState.duration): takePictureAsync is awaited.
takePicture ==
  /\ ~isTakingPhoto
  /\ takePc = "idle"
  /\ Len(dbPhotos) < MaxShots
  /\ isTakingPhoto' = TRUE
  /\ takePc' = "capturing"
  /\ takeDuration' = recordingState.duration
  /\ lastTake' = "none"
  /\ takeError' = ""
  /\ UNCHANGED <<storeVars, photosTaken>>

\* takePictureAsync returns or throws; FileSystem.moveAsync is awaited.
PictureTaken(ok) ==
  /\ takePc = "capturing"
  /\ IF ok
     THEN /\ takePc' = "moving"
          /\ UNCHANGED <<isTakingPhoto, takeDuration, lastTake, takeError, photosTaken,
                         storeVars>>
     ELSE TakeFails("takePictureAsync failed")

\* const currentAudioTimestamp = recordingState.duration, read in the closure
\* of the call.
PhotoAudioTimestamp == takeDuration

\* Mutant of PictureMoved: a failure of moveAsync is swallowed and the photo is
\* saved under the uri it could not be moved to.
PictureMoved_MoveFailureIgnored(outcome) ==
  /\ takePc = "moving"
  /\ IF outcome \in {"saved", "moveAsync failed"}
     THEN /\ addPhoto(PhotoRow(Len(dbPhotos) + 1, CameraInspectionId, now,
                               PhotoAudioTimestamp))
          /\ takePc' = "idle"
          /\ isTakingPhoto' = FALSE
          /\ photosTaken' = Append(photosTaken, Len(dbPhotos) + 1)
          /\ lastTake' = "Photo Captured"
          /\ takeDuration' = 0
          /\ UNCHANGED takeError
     ELSE TakeFails(outcome)

\* FileSystem.moveAsync returns or throws; the photo is stamped and saved with
\* inspectionDB.addPhoto (which may throw), the parent notified and the alert
\* shown.
PictureMoved(outcome) ==
  /\ takePc = "moving"
  /\ IF outcome = "saved"
     THEN /\ addPhoto(PhotoRow(Len(dbPhotos) + 1, CameraInspectionId, now,
                               PhotoAudioTimestamp))
          /\ takePc' = "idle"
          /\ isTakingPhoto' = FALSE
          /\ photosTaken' = Append(photosTaken, Len(dbPhotos) + 1)
          /\ lastTake' = "Photo Captured"
          /\ takeDuration' = 0
          /\ UNCHANGED takeError
     ELSE TakeFails(outcome)

----------------------------------------------------------------------------
(* Specifications *)

BatchIdle ==
  /\ capRequests = <<>>
  /\ capPc = "idle"
  /\ capI = 0
  /\ capPromise = <<>>
  /\ capResults = <<>>

InitBatch ==
  /\ \E n \in 0 .. MaxRequests :
       /\ capRequests = [k \in 1 .. n |-> RequestAt(k)]
       /\ capPc = "loop"
       /\ capI = 0
       /\ capPromise = [k \in 1 .. n |-> Promise("none", NoResult)]
       /\ capResults = <<>>
  /\ InitStore
  /\ InitAnalysisIdle
  /\ InitRecording
  /\ InitCamera
  /\ InitRemoteIdle
  /\ InitContextIdle

NextBatch ==
  \/ IssueBatch /\ UNCHANGED <<storeVars, analysisVars, recordingVars, cameraVars, remoteVars, contextVars>>
  \/ \E k \in DOMAIN capPromise, reply \in ServiceReplies :
       SettleCaption(k, reply) /\ UNCHANGED <<storeVars, analysisVars, recordingVars, cameraVars, remoteVars, contextVars>>
  \/ CollectBatch /\ UNCHANGED <<storeVars, analysisVars, recordingVars, cameraVars, remoteVars, contextVars>>
  \/ CooldownElapsed /\ UNCHANGED <<storeVars, analysisVars, recordingVars, cameraVars, remoteVars, contextVars>>
  \/ ReturnBatch /\ UNCHANGED <<storeVars, analysisVars, recordingVars, cameraVars, remoteVars, contextVars>>

SpecBatch == InitBatch /\ [][NextBatch]_vars

InitLocalStore ==
  /\ BatchIdle /\ InitStore /\ InitAnalysisIdle
  /\ InitRecording /\ InitCamera /\ InitRemoteIdle /\ InitContextIdle

NextStore ==
  \/ \E id \in PhotoIds, i \in InspectionIds, t \in TimeValues, a \in TimeValues :
       addPhoto(PhotoRow(id, i, t, a)) /\ UNCHANGED <<batchVars, analysisVars, recordingVars, cameraVars, remoteVars, contextVars>>
  \/ \E i \in InspectionIds :
       getPhotosForInspection(i) /\ UNCHANGED <<batchVars, analysisVars, recordingVars, cameraVars, remoteVars, contextVars>>

SpecStore == InitLocalStore /\ [][NextStore]_vars

\* The inspections table.
StoreOnly ==
  UNCHANGED <<batchVars, analysisVars, recordingVars, cameraVars, remoteVars, contextVars>>

NextInspectionStore ==
  \/ AdvanceClock /\ UNCHANGED <<batchVars, storeVars, analysisVars, cameraVars, remoteVars, contextVars>>
  \/ \E id \in InspectionIds, tuple \in InspectionTuples :
       InspectionDatabase_createInspection(InspectionRecord(id, tuple)) /\ StoreOnly
  \/ getInspections /\ StoreOnly
  \/ \E i \in InspectionIds : updateInspectionAudio(i, LocalAudioUri) /\ StoreOnly
  \/ \E i \in InspectionIds :
       InspectionDatabase_updateInspectionFirebaseAudioUrl(i, RemoteAudioUrl) /\ StoreOnly
  \/ \E i \in InspectionIds :
       InspectionDatabase_updateInspectionStatus(i, "READY") /\ StoreOnly

SpecInspectionStore == InitLocalStore /\ [][NextInspectionStore]_vars

\* The photos table next to the inspections its rows refer to.
NextPhotoStore ==
  \/ AdvanceClock /\ UNCHANGED <<batchVars, storeVars, analysisVars, cameraVars, remoteVars, contextVars>>
  \/ \E id \in InspectionIds, tuple \in InspectionTuples :
       InspectionDatabase_createInspection(InspectionRecord(id, tuple)) /\ StoreOnly
  \/ \E id \in PhotoIds, i \in InspectionIds :
       /\ Len(dbPhotos) < MaxShots
       /\ addPhoto(PhotoRow(id, i, now, 1000))
       /\ StoreOnly
  \/ \E id \in PhotoIds : updatePhotoFirebaseUrl(id, RemotePhotoUrl) /\ StoreOnly

SpecPhotoStore == InitLocalStore /\ [][NextPhotoStore]_vars

\* The updates of the inspections table, on a store that holds one or two
\* inspections created at the first tick and the photos taken for the first.
InitInspectionUpdates ==
  /\ BatchIdle /\ InitAnalysisIdle
  /\ InitRecording /\ InitCamera /\ InitRemoteIdle /\ InitContextIdle
  /\ \E tuple \in InspectionTuples, count \in 1 .. 2, shots \in 0 .. MaxShots :
       /\ dbInspections =
            SubSeq(<<InspectionRow(InspectionRecord("inspection-1", tuple)),
                     InspectionRow(InspectionRecord("inspection-2", tuple))>>, 1, count)
       /\ dbPhotos = [k \in 1 .. shots |-> PhotoRow(k, "inspection-1", 1000, 1000)]
  /\ dbListed = <<>>
  /\ dbCall = NoStoreCall

NextInspectionUpdates ==
  \/ AdvanceClock /\ UNCHANGED <<batchVars, storeVars, analysisVars, cameraVars, remoteVars, contextVars>>
  \/ \E i \in InspectionIds : updateInspectionAudio(i, LocalAudioUri) /\ StoreOnly
  \/ \E i \in InspectionIds :
       InspectionDatabase_updateInspectionFirebaseAudioUrl(i, RemoteAudioUrl) /\ StoreOnly
  \/ \E i \in InspectionIds, status \in {"RECORDING", "READY"} :
       InspectionDatabase_updateInspectionStatus(i, status) /\ StoreOnly

SpecInspectionUpdates == InitInspectionUpdates /\ [][NextInspectionUpdates]_vars

InitOrchestrator ==
  /\ BatchIdle /\ InitStore /\ InitAnalysis
  /\ InitRecording /\ InitCamera /\ InitRemoteIdle /\ InitContextIdle

NextAnalysis ==
  \/ StartAnalysis /\ UNCHANGED <<batchVars, storeVars, recordingVars, cameraVars, remoteVars, contextVars>>
  \/ \E outcome \in {"ok", "failed"} :
       InspectionLoaded(outcome) /\ UNCHANGED <<batchVars, storeVars, recordingVars, cameraVars, remoteVars, contextVars>>
  \/ TranscriptionFailed /\ UNCHANGED <<batchVars, storeVars, recordingVars, cameraVars, remoteVars, contextVars>>
  \/ \E serviceSegments \in ServiceTranscripts :
       Transcribed(serviceSegments) /\ UNCHANGED <<batchVars, storeVars, recordingVars, cameraVars, remoteVars, contextVars>>
  \/ PhotoListingFailed /\ UNCHANGED <<batchVars, storeVars, recordingVars, cameraVars, remoteVars, contextVars>>
  \/ PhotosListed /\ UNCHANGED <<batchVars, storeVars, recordingVars, cameraVars, remoteVars, contextVars>>
  \/ \E replies \in [1 .. Len(ValidPhotos(anaPhotos)) -> ServiceReplies] :
       CaptionsGenerated(replies) /\ UNCHANGED <<batchVars, storeVars, recordingVars, cameraVars, remoteVars, contextVars>>
  \/ \E failed \in [1 .. Len(anaCaptions) -> BOOLEAN] :
       CaptionsPersisted(failed) /\ UNCHANGED <<batchVars, storeVars, recordingVars, cameraVars, remoteVars, contextVars>>
  \/ \E outcome \in WriteOutcomes :
       ReadyWritten(outcome) /\ UNCHANGED <<batchVars, storeVars, recordingVars, cameraVars, remoteVars, contextVars>>
  \/ \E outcome \in WriteOutcomes :
       ErrorWritten(outcome) /\ UNCHANGED <<batchVars, storeVars, recordingVars, cameraVars, remoteVars, contextVars>>

SpecAnalysis == InitOrchestrator /\ [][NextAnalysis]_vars

\* createNewInspection has created the inspection document before the recording
\* is started; no analysis is running.
InitSessionDocuments ==
  /\ fsInspection = [exists |-> TRUE, firebaseAudioUrl |-> "", status |-> "DRAFT"]
  /\ fsPhotos = <<>>
  /\ anaPc = "idle"
  /\ anaTranscription = NoTranscription
  /\ anaPhotos = <<>>
  /\ anaCaptions = <<>>
  /\ anaRequestFailed = <<>>
  /\ anaPersistFailed = <<>>
  /\ anaStages = {}
  /\ anaResult = NoAnalysisResult

\* The remote documents of one inspection and the inspections collection.
InitRemote ==
  /\ BatchIdle
  /\ InitStore
  /\ InitSessionDocuments
  /\ InitRecording
  /\ InitCamera
  /\ InitRemoteIdle
  /\ InitContextIdle

RemoteOnly ==
  UNCHANGED <<batchVars, storeVars, analysisLocals, recordingVars, cameraVars,
              contextVars>>

NextRemote ==
  \/ \E claimNumber \in ClaimNumbers, outcome \in {"ok", "failed"} :
       createInspection(claimNumber, outcome) /\ RemoteOnly
  \/ \E hasId \in BOOLEAN, outcome \in {"ok", "failed"} :
       addPhotoDoc(hasId, outcome) /\ RemoteOnly
  \/ deleteInspection /\ RemoteOnly
  \/ \E ok \in BOOLEAN : DeletePhotosListed(ok) /\ RemoteOnly
  \/ \E ok \in BOOLEAN : DeletePhotoDoc(ok) /\ RemoteOnly
  \/ \E ok \in BOOLEAN : DeleteInspectionDoc(ok) /\ RemoteOnly

SpecRemote == InitRemote /\ [][NextRemote]_vars

\* One call of getContextAroundTimestamp on any of the argument lists.
InitContext ==
  /\ BatchIdle
  /\ InitStore
  /\ InitAnalysisIdle
  /\ InitRecording
  /\ InitCamera
  /\ InitRemoteIdle
  /\ InitContextCall

NextContext ==
  \/ ContextReturned
       /\ UNCHANGED <<batchVars, storeVars, analysisVars, recordingVars, cameraVars,
                      remoteVars>>

SpecContext == InitContext /\ [][NextContext]_vars

\* The capture session: RecordingProvider and CameraScreen over the local store
\* and the inspection document of the session.
Init ==
  /\ BatchIdle
  /\ InitStore
  /\ InitSessionDocuments
  /\ InitRecording
  /\ InitCamera
  /\ InitRemoteIdle
  /\ InitContextIdle

RecordingOnly == UNCHANGED <<batchVars, storeVars, analysisVars, cameraVars, remoteVars, contextVars>>

CameraOnly ==
  UNCHANGED <<batchVars, analysisVars, recordingVars, remoteVars, contextVars>>

Next ==
  \/ AdvanceClock /\ RecordingOnly
  \/ \E timer \in timers : Tick(timer) /\ RecordingOnly
  \/ startRecording /\ RecordingOnly
  \/ \E status \in {"granted", "denied"} : PermissionAnswered(status) /\ RecordingOnly
  \/ \E ok \in BOOLEAN : AudioModeSet(ok) /\ RecordingOnly
  \/ CreateFailed /\ RecordingOnly
  \/ RecordingCreated /\ RecordingOnly
  \/ StopNoRecording /\ RecordingOnly
  \/ \E withInspectionId \in BOOLEAN : stopRecording(withInspectionId) /\ RecordingOnly
  \/ \E released \in BOOLEAN : StopUnloadFailed(released) /\ RecordingOnly
  \/ \E uri \in {NoUri, "file://cache/recording.m4a"} : StopUnloaded(uri) /\ RecordingOnly
  \/ \E ok \in BOOLEAN : StopMoved(ok) /\ RecordingOnly
  \/ \E ok \in BOOLEAN : StopUploaded(ok) /\ RecordingOnly
  \/ \E outcome \in {"ok", "failed"} :
       /\ StopLinked(outcome)
       /\ UNCHANGED <<batchVars, storeVars, cameraVars, remoteVars, contextVars,
                      fsPhotos, analysisLocals>>
  \/ resetRecording /\ RecordingOnly
  \/ takePicture /\ CameraOnly
  \/ \E ok \in BOOLEAN : PictureTaken(ok) /\ CameraOnly
  \/ \E outcome \in {"saved", "moveAsync failed", "addPhoto failed"} :
       PictureMoved(outcome) /\ CameraOnly

Spec == Init /\ [][Next]_vars

\* The capture session with every pending callback, timer and user action
\* eventually run.
SpecLive == Init /\ [][Next]_vars /\ WF_vars(Next)

----------------------------------------------------------------------------
(* Claims about the Caption Batch Pipeline, checked under SpecBatch *)

Settled(k) == capPromise[k].state \in {"fulfilled", "rejected"}

InFlight == {k \in DOMAIN capPromise : capPromise[k].state = "pending"}

\* The wave (0-based) request k belongs to.
WaveOf(k) == (k - 1) \div batchSize

\* C3: when generateCaptionsBatch returns, it returns exactly N results and
\* result k belongs to request k: the failure sentinel (caption "Caption
\* generation failed", confidence 0) if request k threw, and otherwise the
\* caption result generateCaption produced for request k.
C3_ResultsIndexAligned ==
  capPc = "done" =>
    /\ Len(capResults) = Len(capRequests)
    /\ \A k \in 1 .. Len(capRequests) :
         /\ capResults[k].timestamp = capRequests[k].photoTimestamp
         /\ capPromise[k].state = "rejected" =>
              /\ capResults[k].caption = "Caption generation failed"
              /\ capResults[k].confidence = 0
         /\ capPromise[k].state = "fulfilled" => capResults[k] = capPromise[k].value

\* C3 witness: seven requests, the fourth threw, the others produced captions.
C3_Witness ==
  /\ capPc = "done"
  /\ Len(capRequests) = 7
  /\ capPromise[4].state = "rejected"
  /\ \A k \in {1, 2, 3, 5, 6, 7} : capPromise[k].state = "fulfilled"
  /\ capResults[4].caption = "Caption generation failed"

\* C4: at most batchSize caption requests are in flight at any instant, and a
\* request of a later wave has been issued only if every request of every
\* earlier wave has settled, by success or by failure.
C4_BoundedInFlight ==
  /\ Cardinality(InFlight) <= batchSize
  /\ \A j, k \in DOMAIN capPromise :
       (WaveOf(j) < WaveOf(k) /\ capPromise[k].state # "none") => Settled(j)

\* C4 witness: the second wave is fully in flight after a first wave in which a
\* request failed.
C4_Witness ==
  /\ Cardinality(InFlight) = batchSize
  /\ capI = batchSize
  /\ \E j \in 1 .. batchSize : capPromise[j].state = "rejected"

----------------------------------------------------------------------------
(* Claims about the Local Evidence Store, checked under SpecStore *)

AscendingBy(rows, key(_)) ==
  \A a, b \in 1 .. Len(rows) : a < b => key(rows[a]) <= key(rows[b])

AudioTimestampOf(row) == row.audio_timestamp

TimestampOf(row) == row.timestamp

----------------------------------------------------------------------------
(* Claims about the Analysis Orchestrator, checked under SpecAnalysis *)

Status == fsInspection.status

\* The stages after transcription: photo listing, context extraction, caption
\* requests, caption persistence and the READY write.
LaterStages == {"list", "context", "captions", "persist", "ready", "readyWritten"}

TranscriptionFailedInRun == anaPc = "done" /\ anaTranscription.failed

SomeRequestFailed == \E k \in DOMAIN anaRequestFailed : anaRequestFailed[k]

SomeRequestSucceeded == \E k \in DOMAIN anaRequestFailed : ~anaRequestFailed[k]

\* The caption stored on the photo document with this id.
StoredCaption(photoId) ==
  LET k == CHOOSE j \in 1 .. Len(fsPhotos) : fsPhotos[j].id = photoId
  IN fsPhotos[k].caption

\* C5 as stated: while a run is transcribing or captioning, the inspection's
\* status is PROCESSING (set when the run started).
C5_ProcessingWhileRunning ==
  anaPc \in {"transcribe", "getPhotos", "captions", "persist", "setReady"}
    => Status = "PROCESSING"

\* C6 as stated: after a run whose transcription failed, no later stage has
\* been executed, the inspection status is ERROR and the result is FAILED.
C6_TranscriptionFailureSetsError ==
  TranscriptionFailedInRun =>
    /\ anaStages \cap LaterStages = {}
    /\ anaCaptions = <<>>
    /\ Status = "ERROR"
    /\ anaResult.status = "FAILED"

\* C6 as amended: after a run whose transcription failed, no later stage has
\* been executed, the ERROR status write has been attempted, the status is
\* ERROR if that write succeeded, and the result is FAILED.
C6_TranscriptionFailureAborts ==
  TranscriptionFailedInRun =>
    /\ anaStages \cap LaterStages = {}
    /\ anaCaptions = <<>>
    /\ "error" \in anaStages
    /\ "errorWritten" \in anaStages => Status = "ERROR"
    /\ anaResult.status = "FAILED"

\* C6 witness: a run on an inspection with photos ended after its transcription
\* failed and its ERROR write succeeded.
C6_Witness ==
  /\ TranscriptionFailedInRun
  /\ Len(fsPhotos) = MaxFsPhotos
  /\ "errorWritten" \in anaStages
  /\ Status = "ERROR"

\* A finished run in which some caption requests failed and some succeeded.
PartialCaptionRun ==
  /\ anaPc = "done"
  /\ "persist" \in anaStages
  /\ SomeRequestFailed
  /\ SomeRequestSucceeded

\* C7 as stated: such a run ends with status READY, every photo carries the
\* caption of its request (the sentinel if the request failed), and the call
\* returned rather than threw.
C7_PartialFailureReady ==
  PartialCaptionRun =>
    /\ Status = "READY"
    /\ anaResult.status = "COMPLETED"
    /\ \A k \in 1 .. Len(anaCaptions) :
         /\ StoredCaption(anaCaptions[k].photoId) = anaCaptions[k].caption
         /\ anaRequestFailed[k] <=> anaCaptions[k].caption = "Caption generation failed"

\* C7 as amended: such a run returns rather than throws; if its READY status
\* write succeeded the status is READY and the result COMPLETED; and every
\* photo whose caption write succeeded carries the caption of its request, the
\* sentinel exactly if the request failed.
C7_PartialFailureIsolated ==
  PartialCaptionRun =>
    /\ anaResult.status \in {"COMPLETED", "FAILED"}
    /\ "readyWritten" \in anaStages =>
         (Status = "READY" /\ anaResult.status = "COMPLETED")
    /\ "readyWritten" \notin anaStages => anaResult.status = "FAILED"
    /\ \A k \in 1 .. Len(anaCaptions) :
         /\ ~anaPersistFailed[k] =>
              StoredCaption(anaCaptions[k].photoId) = anaCaptions[k].caption
         /\ anaRequestFailed[k] <=> anaCaptions[k].caption = "Caption generation failed"

\* C7 witness: two photos, the first captioned and the second failed, both
\* captions stored, status READY.
C7_Witness ==
  /\ PartialCaptionRun
  /\ Len(anaCaptions) = 2
  /\ ~anaRequestFailed[1] /\ anaRequestFailed[2]
  /\ StoredCaption(anaCaptions[1].photoId) \in CaptionTexts
  /\ StoredCaption(anaCaptions[2].photoId) = "Caption generation failed"
  /\ Status = "READY"

\* C8: a call of analyzeInspection that has ended has returned a result tagged
\* COMPLETED or FAILED (it has not thrown), whatever collaborators failed, and
\* the result is FAILED when the ERROR status write of the catch block failed.
C8_AlwaysReturnsResult ==
  anaPc = "done" =>
    /\ anaResult.status \in {"COMPLETED", "FAILED"}
    /\ ("error" \in anaStages /\ "errorWritten" \notin anaStages)
         => anaResult.status = "FAILED"

\* C8 witness: transcription failed and then the ERROR status write failed.
C8_Witness ==
  /\ TranscriptionFailedInRun
  /\ "error" \in anaStages
  /\ "errorWritten" \notin anaStages
  /\ anaResult.status = "FAILED"

StatusMoveAllowed(from, to) ==
  \/ from = to
  \/ from = "DRAFT"
  \/ from = "PROCESSING" /\ to \in {"READY", "ERROR"}
  \/ from = "ERROR" /\ to = "PROCESSING"

\* C9 as stated: the status only moves forward along DRAFT, PROCESSING,
\* READY/ERROR, the only move out of ERROR is to PROCESSING, and READY never
\* becomes ERROR or DRAFT.
C9_StatusMonotonic == [][StatusMoveAllowed(Status, Status')]_vars

----------------------------------------------------------------------------
(* Claims about the capture session *)

LastPhoto == dbPhotos[Len(dbPhotos)]

\* A photo row is inserted by this step.
PhotoSaved == Len(dbPhotos') = Len(dbPhotos) + 1

\* C1: every photo saved while the recording is active carries as audio
\* timestamp the duration the recording state holds at that moment, whatever
\* ticks fell between the capture call, the file move and addPhoto.
C1_AudioTimestampIsCurrentDuration ==
  [][(PhotoSaved /\ recordingState.isRecording)
       => dbPhotos'[Len(dbPhotos')].audio_timestamp = recordingState.duration]_vars

\* A stop call that began and ended in this step (no call in flight moved on).
StopEndedAtOnce == stopPc' = stopPc /\ lastStop' # lastStop

SessionActive == recordingState.isRecording /\ recordingRef # 0

\* A startRecording call ends in this step.
StartEnds == startPc # "idle" /\ startPc' = "idle"

StopCallEnds == StopEndedAtOnce \/ (stopPc # "idle" /\ stopPc' = "idle")

\* C12: whenever a stopRecording call ends, by returning or by throwing from
\* any of its steps, on a fresh session or after an earlier failed stop, the
\* recording state it leaves is not recording.
C12_StopLeavesNotRecording ==
  [][StopCallEnds => ~recordingState'.isRecording]_vars

\* A stop has failed in stopAndUnloadAsync: the state is not recording while the
\* ref still holds the recording, so that stopRecording can be called again.
C12_Witness ==
  /\ lastStop = Threw("stopAndUnloadAsync failed")
  /\ stopPc = "idle"
  /\ recordingRef # 0
  /\ ~recordingState.isRecording

\* C13: resetRecording, called in any state, leaves the state cleared
\* (isRecording false, duration 0), no recording in the ref and no duration
\* timer running.
C13_ResetTearsDown ==
  [][resetRecording
       => /\ recordingState' = ClearedState
          /\ recordingRef' = 0
          /\ intervalRef' = 0
          /\ timers' = {}]_vars

\* C14: a startRecording call that ends at the permission request (permission
\* not granted) throws 'Audio permission not granted' and changes nothing: no
\* recording is created, no timer started, and the recording state is what it
\* was (isRecording false and duration 0 for a session that was idle).
C14_PermissionDeniedNoPartialState ==
  [][(startPc = "permission" /\ startPc' = "idle")
       => /\ lastStart' = Threw("Audio permission not granted")
          /\ handles' = handles
          /\ prepared' = prepared
          /\ timers' = timers
          /\ recordingRef' = recordingRef
          /\ intervalRef' = intervalRef
          /\ recordingState' = recordingState]_vars

\* The first startRecording was refused the permission: the session is idle.
C14_Witness ==
  /\ lastStart = Threw("Audio permission not granted")
  /\ startPc = "idle"
  /\ handles = 0
  /\ recordingState = ClearedState
  /\ recordingRef = 0
  /\ timers = {}

----------------------------------------------------------------------------
(* Claims about the remote store *)

\* C15: however often an inspection is written to the remote store with the
\* same payload, collection inspections holds one document for it.
C15_OneDocumentPerInspection ==
  \A i, j \in 1 .. Len(fsCreated) :
    fsCreated[i].claimNumber = fsCreated[j].claimNumber => i = j

\* C20: when the inspection document is deleted, no photo document of the
\* inspection is left, whatever addPhoto calls and failed deletes came before
\* or in between.
C20_NoOrphanPhotos ==
  [][(fsInspection.exists /\ ~fsInspection'.exists) => fsPhotos' = <<>>]_vars

----------------------------------------------------------------------------
(* Claims about the capture session and the remote store *)

RemoteSyncFailed == lastStop.remote \in {"upload failed", "link failed"}

\* C16: a stopRecording call whose upload to Firebase Storage or whose update
\* of firebaseAudioUrl failed returns the local URI all the same, without
\* throwing, and leaves the recording state not recording with that URI.
C16_RemoteFailureKeepsLocal ==
  [][(lastStop' # lastStop /\ RemoteSyncFailed')
       => /\ lastStop'.outcome = "returned"
          /\ lastStop'.uri = LocalAudioUri
          /\ recordingState'.audioUri = LocalAudioUri
          /\ ~recordingState'.isRecording]_vars

\* A stop has returned after its upload succeeded and the link update failed.
C16_Witness ==
  /\ lastStop.remote = "link failed"
  /\ lastStop.outcome = "returned"
  /\ lastStop.uri = LocalAudioUri
  /\ recordingState.audioUri = LocalAudioUri
  /\ fsInspection.firebaseAudioUrl = ""

HasLocalPhoto(id) == \E k \in 1 .. Len(dbPhotos) : dbPhotos[k].id = id

HasRemotePhoto(id) == \E k \in 1 .. Len(fsPhotos) : fsPhotos[k].id = FsPhotoIdAt(id)

\* C17: every photo row added to the local store is eventually followed by a
\* photo document of the same identifier in the remote store.
C17_PhotosEventuallyMirrored ==
  \A id \in 1 .. MaxShots : HasLocalPhoto(id) ~> HasRemotePhoto(id)

----------------------------------------------------------------------------
(* Claims about context extraction *)

\* The start or the end of the segment lies in [T - W, T + W].
InWindow(segment, T, W) ==
  \/ T - W <= segment.start /\ segment.start <= T + W
  \/ T - W <= segment.end /\ segment.end <= T + W

\* The positions of the segments in the window, and the k-th smallest of them.
WindowPositions(segments, T, W) ==
  {k \in 1 .. Len(segments) : InWindow(segments[k], T, W)}

Position(positions, k) ==
  CHOOSE p \in positions : Cardinality({q \in positions : q < p}) = k - 1

WindowTexts(segments, T, W) ==
  LET positions == WindowPositions(segments, T, W)
  IN [k \in 1 .. Cardinality(positions) |-> segments[Position(positions, k)].text]

ExampleSegments ==
  << [start |-> 0, end |-> 2000, text |-> <<"a">>, confidence |-> 95],
     [start |-> 5000, end |-> 7000, text |-> <<"b">>, confidence |-> 80],
     [start |-> 9000, end |-> 11000, text |-> <<"c">>, confidence |-> 95] >>

ExampleCall(T) ==
  /\ ctxCall.returned
  /\ ctxCall.segments = ExampleSegments
  /\ ctxCall.timestamp = T
  /\ ctxCall.contextRange = ContextRange

\* The result is the texts of the segments in the window, and of no other, in
\* segment order with one space between them, without spaces at either end.
ContextIsWindowTexts ==
  ctxCall.returned
    => /\ ctxCall.result =
            Trim(Join(WindowTexts(ctxCall.segments, ctxCall.timestamp,
                                  ctxCall.contextRange)))
       /\ ctxCall.result # <<>>
            => Head(ctxCall.result) # Space
               /\ ctxCall.result[Len(ctxCall.result)] # Space

\* C18 as stated: getContextAroundTimestamp returns the joined and trimmed
\* texts of exactly the segments whose start or end lies in [T - W, T + W],
\* and for the example segments with T = 6000 and W = 3000 this is "b" only.
C18_ContextWithExample ==
  /\ ContextIsWindowTexts
  /\ ExampleCall(6000) => ctxCall.result = <<"b">>

\* C18 amended: getContextAroundTimestamp returns the joined and trimmed texts
\* of exactly the segments whose start or end lies in [T - W, T + W]; for the
\* example segments with W = 3000 this is "b c" at T = 6000, where segment c
\* starts exactly at T + W, and "b" only at T = 5500.
C18_ContextIsWindowTexts ==
  /\ ContextIsWindowTexts
  /\ ExampleCall(6000) => ctxCall.result = <<"b", Space, "c">>
  /\ ExampleCall(5500) => ctxCall.result = <<"b">>

\* The example call has returned.
C18_Witness == ExampleCall(6000) /\ ctxCall.result = <<"b", Space, "c">>

----------------------------------------------------------------------------
(* Claims about analysis of an inspection that cannot be analyzed *)

\* A run has ended on an inspection that does not exist.
NotFoundRun == anaPc = "done" /\ ~fsInspection.exists

\* A run has ended on an inspection that has no firebaseAudioUrl.
NoAudioRun ==
  anaPc = "done" /\ fsInspection.exists /\ fsInspection.firebaseAudioUrl = ""

\* The run returned FAILED and ran neither the transcription nor any later
\* stage, so that no caption was requested or written.
FailedBeforeTranscription ==
  /\ anaResult.status = "FAILED"
  /\ anaStages \cap ({"transcribe"} \cup LaterStages) = {}
  /\ ~anaTranscription.failed
  /\ anaCaptions = <<>>
  /\ anaPersistFailed = <<>>

\* C19 as stated: a run on a missing inspection or on one without remote
\* audio returns FAILED without transcription, photo listing or captions, and
\* in the no-audio case the inspection status is ERROR.
C19_UnanalyzableSetsError ==
  /\ NotFoundRun => FailedBeforeTranscription
  /\ NoAudioRun => FailedBeforeTranscription /\ Status = "ERROR"

\* C19 as amended: ... and in the no-audio case the ERROR status write has
\* been attempted, the status being ERROR if that write succeeded.
C19_UnanalyzableFailsEarly ==
  /\ NotFoundRun
       => /\ FailedBeforeTranscription
          /\ anaResult.error \in {"Inspection not found", "Failed to get inspection"}
  /\ NoAudioRun
       => /\ FailedBeforeTranscription
          /\ anaResult.error \in {"No audio file found for inspection",
                                   "Failed to get inspection"}
          /\ "error" \in anaStages
          /\ "errorWritten" \in anaStages => Status = "ERROR"

\* A run on an inspection with photos but without audio has ended with the
\* NoAudio error and its ERROR write succeeded.
C19_Witness ==
  /\ NoAudioRun
  /\ anaResult.error = "No audio file found for inspection"
  /\ Len(fsPhotos) > 0
  /\ "errorWritten" \in anaStages
  /\ Status = "ERROR"

----------------------------------------------------------------------------
(* Claims about the inspections table of the Local Evidence Store, checked *)
(* under SpecInspectionStore                                               *)

\* The rows of a listing or a table that hold the given id.
RowsWithId(rows, id) == {k \in 1 .. Len(rows) : rows[k].id = id}

\* The row carries the caller's identifier and tuple, and status DRAFT.
MatchesRecord(row, id, tuple) ==
  /\ row.id = id
  /\ row.client = tuple.client
  /\ row.address = tuple.address
  /\ row.claim_number = tuple.claim_number
  /\ row.inspection_date = tuple.inspection_date
  /\ row.status = "DRAFT"

LastInspection == dbInspections[Len(dbInspections)]

\* C21: a createInspection call that returns leaves exactly one row with the
\* caller's identifier in the table, carrying the caller's client, address,
\* claim number and date and status DRAFT; and a getInspections call that
\* follows it immediately returns a list with exactly one row of that
\* identifier, which is that row.
C21_CreatedThenListed ==
  [][/\ \A id \in InspectionIds, tuple \in InspectionTuples :
          (/\ InspectionDatabase_createInspection(InspectionRecord(id, tuple))
           /\ dbCall'.outcome = "returned")
            => /\ Cardinality(RowsWithId(dbInspections', id)) = 1
               /\ MatchesRecord(dbInspections'[Len(dbInspections')], id, tuple)
     /\ (/\ dbCall.method = "createInspection"
         /\ dbCall.outcome = "returned"
         /\ dbCall'.method = "getInspections")
          => /\ Cardinality(RowsWithId(dbCall'.rows, LastInspection.id)) = 1
             /\ \A k \in RowsWithId(dbCall'.rows, LastInspection.id) :
                  dbCall'.rows[k] = LastInspection]_vars

\* C21 witness: a listing that holds inspection-2 of Client B exactly once,
\* with status DRAFT, next to an older inspection that has been updated.
C21_Witness ==
  /\ dbCall.method = "getInspections"
  /\ Len(dbCall.rows) = 2
  /\ Cardinality(RowsWithId(dbCall.rows, "inspection-2")) = 1
  /\ \E tuple \in InspectionTuples :
       /\ tuple.client = "Client B"
       /\ MatchesRecord(dbCall.rows[1], "inspection-2", tuple)
  /\ dbCall.rows[2].status = "READY"

\* C22: createInspection with an identifier that is already in the table
\* throws and leaves both tables as they were: the existing row keeps all its
\* fields and no second row is created.
C22_DuplicateIdRejected ==
  [][\A id \in InspectionIds, tuple \in InspectionTuples :
        (/\ HasInspection(id)
         /\ InspectionDatabase_createInspection(InspectionRecord(id, tuple)))
          => /\ dbCall'.outcome = "constraint failed"
             /\ dbInspections' = dbInspections
             /\ dbPhotos' = dbPhotos]_vars

\* C22 witness: a createInspection call has thrown on a table whose only row
\* still has the audio location and the status written by earlier updates, at
\* a time later than the row's creation.
C22_Witness ==
  /\ dbCall.method = "createInspection"
  /\ dbCall.outcome = "constraint failed"
  /\ Len(dbInspections) = 1
  /\ dbInspections[1].audio_uri = LocalAudioUri
  /\ dbInspections[1].status = "READY"
  /\ dbInspections[1].created_at < now

\* C23, checked under SpecPhotoStore: every row of table photos references a
\* row of table inspections.
C23_PhotosReferenceInspections ==
  \A k \in 1 .. Len(dbPhotos) : HasInspection(dbPhotos[k].inspection_id)

\* C24: an update of an inspection whose identifier is not in the table does
\* not return normally, and changes neither table.
C24_UpdateOfMissingFails ==
  [][\A i \in InspectionIds :
        (/\ ~HasInspection(i)
         /\ \/ updateInspectionAudio(i, LocalAudioUri)
            \/ InspectionDatabase_updateInspectionFirebaseAudioUrl(i, RemoteAudioUrl)
            \/ InspectionDatabase_updateInspectionStatus(i, "READY"))
          => /\ dbCall'.outcome # "returned"
             /\ dbInspections' = dbInspections
             /\ dbPhotos' = dbPhotos]_vars

\* C25: the list getInspections returns holds every row of table inspections
\* exactly once and nothing else, is in descending order of created_at, and
\* is empty when the table is empty.
C25_ListedNewestFirst ==
  dbCall.method = "getInspections"
    => /\ Len(dbCall.rows) = Len(dbInspections)
       /\ \A j \in 1 .. Len(dbInspections) :
            Cardinality({k \in 1 .. Len(dbCall.rows) :
                           dbCall.rows[k] = dbInspections[j]}) = 1
       /\ \A a, b \in 1 .. Len(dbCall.rows) :
            a < b => dbCall.rows[a].created_at >= dbCall.rows[b].created_at
       /\ dbInspections = <<>> => dbCall.rows = <<>>

\* C25 witness: a listing of two inspections in which the one inserted last,
\* and created later, comes first.
C25_Witness ==
  /\ dbCall.method = "getInspections"
  /\ Len(dbCall.rows) = 2
  /\ dbCall.rows[1] = dbInspections[2]
  /\ dbCall.rows[2] = dbInspections[1]
  /\ dbCall.rows[1].created_at > dbCall.rows[2].created_at

----------------------------------------------------------------------------
(* Claims about caption persistence, checked under SpecAnalysis *)

\* This run has been through updatePhotosWithCaptions.
PersistedInRun == "ready" \in anaStages

\* A finished run in which the caption write of some photo failed.
PersistFailureRun ==
  /\ anaPc = "done"
  /\ PersistedInRun
  /\ \E k \in DOMAIN anaPersistFailed : anaPersistFailed[k]

\* Every photo whose own caption write did not fail carries its caption.
OtherCaptionsPersisted ==
  \A k \in 1 .. Len(anaCaptions) :
    ~anaPersistFailed[k] => StoredCaption(anaCaptions[k].photoId) = anaCaptions[k].caption

\* C26 as stated: in a run in which the caption write of some photo failed, the
\* captions of the other photos are persisted, the status is READY and the
\* result is COMPLETED.
C26_PersistFailureStillReady ==
  PersistFailureRun =>
    /\ OtherCaptionsPersisted
    /\ Status = "READY"
    /\ anaResult.status = "COMPLETED"

\* C26 as amended: in a run in which the caption write of some photo failed,
\* the captions of the other photos are persisted and the READY status write
\* has been issued; the status is READY and the result COMPLETED if that write
\* succeeded, and the result is FAILED if it did not.
C26_PersistFailureIsolated ==
  PersistFailureRun =>
    /\ OtherCaptionsPersisted
    /\ "readyWritten" \in anaStages =>
         (Status = "READY" /\ anaResult.status = "COMPLETED")
    /\ "readyWritten" \notin anaStages => anaResult.status = "FAILED"

\* C26 witness: two photos, the caption write of the first failed and the
\* second photo carries its caption; status READY, result COMPLETED.
C26_Witness ==
  /\ PersistFailureRun
  /\ Len(anaCaptions) = 2
  /\ anaPersistFailed[1] /\ ~anaPersistFailed[2]
  /\ StoredCaption(anaCaptions[1].photoId) = ""
  /\ StoredCaption(anaCaptions[2].photoId) = anaCaptions[2].caption
  /\ Status = "READY"
  /\ anaResult.status = "COMPLETED"

\* This run has written a caption onto some photo.
CaptionWrittenInRun ==
  /\ PersistedInRun
  /\ \E k \in DOMAIN anaPersistFailed : ~anaPersistFailed[k]

\* C30: a run that has returned FAILED has written no caption onto any photo.
C30_FailedRunWritesNoCaption ==
  (anaPc = "done" /\ anaResult.status = "FAILED") => ~CaptionWrittenInRun

----------------------------------------------------------------------------
(* Claims about the waves of the Caption Batch Pipeline, checked under     *)
(* SpecBatch                                                               *)

\* The requests of wave w (0-based) of a call with n requests.
WaveRequests(w, n) == {k \in 1 .. n : WaveOf(k) = w}

\* ceil(n / batchSize).
WaveCount(n) == (n + batchSize - 1) \div batchSize

\* The requests that are issued in this step.
Issued == {k \in DOMAIN capPromise : capPromise[k].state = "none" /\ capPromise'[k].state # "none"}

\* C27: every step that issues requests issues exactly the next wave in input
\* order: the requests of wave i / batchSize, batchSize of them or, in the
\* last wave, the remaining ones, while all earlier requests have been issued
\* and settled and no later one has been issued; the loop moves on to the
\* next wave only out of the cool-down wait, and leaves the last wave without
\* one; and the call returns after ceil(N / batchSize) waves.
C27_WavesWithCooldown ==
  [][LET n == Len(capRequests)
     IN /\ Issued # {}
             => /\ capI % batchSize = 0
                /\ Issued = WaveRequests(capI \div batchSize, n)
                /\ Cardinality(Issued) = Min(batchSize, n - capI)
                /\ \A k \in 1 .. n :
                     /\ k <= capI => Settled(k)
                     /\ k > capI + batchSize => capPromise'[k].state = "none"
        /\ capI' # capI
             => /\ capI' = capI + batchSize
                /\ capI' < n => capPc = "cooldown"
                /\ capI' >= n => capPc = "await"
        /\ capPc' = "cooldown" => capPc = "await" /\ capI + batchSize < n
        /\ capPc' = "done" => capI = batchSize * WaveCount(n)]_vars

\* C27 witness: seven requests, the third wave is in flight and holds the
\* seventh request only, after two waves of three.
C27_Witness ==
  /\ Len(capRequests) = 7
  /\ capPc = "await"
  /\ capI = 6
  /\ InFlight = {7}
  /\ Len(capResults) = 6

----------------------------------------------------------------------------
(* Claims about the timers and the races of the capture session, checked   *)
(* under Spec                                                              *)

\* C28: at most one duration timer is live, and none is live while the state
\* is not recording.
C28_OneTimerOnlyWhileRecording ==
  /\ Cardinality(timers) <= 1
  /\ ~recordingState.isRecording => timers = {}

\* A stopRecording call is awaiting stopAndUnloadAsync, moveAsync, the upload
\* or the link update.
StopInFlight == stopPc # "idle"

\* The state resetRecording leaves behind, no other stopRecording call having
\* ended since the one in flight began: a state with a stop in flight that
\* satisfies this is a state right after a resetRecording call.
JustReset ==
  /\ recordingState = ClearedState
  /\ recordingRef = 0
  /\ intervalRef = 0
  /\ lastStop = NoCall

\* C29: when a stopRecording call that was in flight during a resetRecording
\* call ends, the recording state is still the cleared state.
C29_StopAfterResetKeepsCleared ==
  [][(StopInFlight /\ JustReset /\ stopPc' = "idle") => recordingState' = ClearedState]_vars

----------------------------------------------------------------------------
(* Claims about the pairing of photos and captions, checked under          *)
(* SpecAnalysis                                                            *)

\* The photo document with this id.
PhotoDoc(photoId) ==
  fsPhotos[CHOOSE j \in 1 .. Len(fsPhotos) : fsPhotos[j].id = photoId]

\* The ids of the photo documents that carry one.
ValidPhotoIds == {fsPhotos[j].id : j \in 1 .. Len(fsPhotos)} \ {NoPhotoId}

\* C31: in a run that has been through caption persistence there is exactly
\* one caption result per photo with an id, in the order of the photos; the
\* result of a photo carries the context extracted at that photo's own audio
\* timestamp, is the failure sentinel exactly if that photo's request failed,
\* and is the caption stored on that photo unless its write failed; photos
\* without id carry no caption.
C31_CaptionBelongsToItsPhoto ==
  PersistedInRun =>
    /\ Len(anaCaptions) = Len(ValidPhotos(fsPhotos))
    /\ \A k \in 1 .. Len(anaCaptions) :
         LET photo == PhotoDoc(anaCaptions[k].photoId)
         IN /\ anaCaptions[k].photoId = ValidPhotos(fsPhotos)[k].id
            /\ anaCaptions[k].timestamp = photo.audioTimestamp
            /\ anaCaptions[k].audioContext =
                 CaptionRequestFor(photo, anaTranscription.segments).audioContext
            /\ anaRequestFailed[k] <=> anaCaptions[k].caption = "Caption generation failed"
            /\ ~anaPersistFailed[k] => photo.caption = anaCaptions[k].caption
    /\ \A j \in 1 .. Len(fsPhotos) : fsPhotos[j].id = NoPhotoId => fsPhotos[j].caption = ""

\* C31 witness: the first photo has no id; the second photo carries the
\* caption of its own request, whose context was extracted at its own
\* timestamp and differs from the context at the first photo's timestamp.
C31_Witness ==
  /\ anaPc = "done"
  /\ PersistedInRun
  /\ Len(fsPhotos) = 2
  /\ fsPhotos[1].id = NoPhotoId
  /\ Len(anaCaptions) = 1
  /\ anaCaptions[1].photoId = fsPhotos[2].id
  /\ fsPhotos[2].caption \in CaptionTexts
  /\ anaCaptions[1].audioContext
       # CaptionRequestFor(fsPhotos[1], anaTranscription.segments).audioContext

\* Caption result k of the run belongs to a photo at whose audio timestamp no
\* transcript segment qualifies: Context Extraction returned the empty string.
EmptyContextAt(k) ==
  getContextAroundTimestamp(anaTranscription.segments,
                            PhotoDoc(anaCaptions[k].photoId).audioTimestamp,
                            ContextRange) = <<>>

\* C32: in a run that has been through caption generation, a photo for which
\* Context Extraction returned the empty string has a caption result like any
\* other photo: a request was issued for it, and unless the caption service
\* failed on that request the result is the service's caption, with the
\* service's confidence, and not the failure sentinel.
C32_EmptyContextIsValidInput ==
  "persist" \in anaStages =>
    /\ Len(anaCaptions) = Len(ValidPhotos(fsPhotos))
    /\ Len(anaRequestFailed) = Len(anaCaptions)
    /\ \A k \in 1 .. Len(anaCaptions) :
         (EmptyContextAt(k) /\ ~anaRequestFailed[k])
           => /\ anaCaptions[k].caption \in CaptionTexts \cup {"No caption generated"}
              /\ anaCaptions[k].confidence = HighConfidence

\* C32 witness: a finished run over an empty transcript in which the photo
\* carries the caption the service gave for it.
C32_Witness ==
  /\ anaPc = "done"
  /\ anaTranscription.segments = <<>>
  /\ ~anaTranscription.failed
  /\ Len(anaCaptions) = 1
  /\ EmptyContextAt(1)
  /\ anaCaptions[1].caption = "Water stain"
  /\ PhotoDoc(anaCaptions[1].photoId).caption = "Water stain"
  /\ anaResult.status = "COMPLETED"

----------------------------------------------------------------------------
(* Claims about an inspection without photos, checked under SpecAnalysis   *)

\* A finished run whose transcription succeeded and whose photo listing
\* returned the empty list.
EmptyPhotoRun ==
  /\ anaPc = "done"
  /\ ~anaTranscription.failed
  /\ "captions" \in anaStages
  /\ anaPhotos = <<>>

\* C33 as stated: such a run issued no caption request, returned COMPLETED
\* with zero photo captions and set the status to READY.
C33_EmptyPhotoListCompletes ==
  EmptyPhotoRun =>
    /\ anaRequestFailed = <<>>
    /\ anaResult.status = "COMPLETED"
    /\ anaResult.photoCaptions = <<>>
    /\ Status = "READY"

\* C33 as amended: such a run issued no caption request, produced zero photo
\* captions and went on to the READY status write; if that write succeeded
\* the status is READY and the result is COMPLETED with zero photo captions,
\* and otherwise the result is FAILED.
C33_EmptyPhotoListReachesReady ==
  EmptyPhotoRun =>
    /\ anaRequestFailed = <<>>
    /\ anaCaptions = <<>>
    /\ "ready" \in anaStages
    /\ "readyWritten" \in anaStages
         => /\ anaResult.status = "COMPLETED"
            /\ anaResult.photoCaptions = <<>>
            /\ Status = "READY"
    /\ "readyWritten" \notin anaStages => anaResult.status = "FAILED"

\* C33 witness: a run on an inspection with audio, a transcript with segments
\* and no photos has returned COMPLETED and the status is READY.
C33_Witness ==
  /\ EmptyPhotoRun
  /\ fsInspection.firebaseAudioUrl # ""
  /\ Len(anaTranscription.segments) > 0
  /\ fsPhotos = <<>>
  /\ anaResult.status = "COMPLETED"
  /\ anaResult.photoCaptions = <<>>
  /\ Status = "READY"

----------------------------------------------------------------------------
(* Claims about generateCaption, checked under SpecBatch *)

\* C34: a generateCaption promise that is fulfilled holds a caption text the
\* service answered with; on every other answer the promise is rejected.
C34_CaptionOnlyFromServiceText ==
  \A k \in DOMAIN capPromise :
    capPromise[k].state = "fulfilled" => capPromise[k].value.caption \in CaptionTexts

----------------------------------------------------------------------------
(* Claims about the current segment, checked under SpecContext *)

\* getSegmentForTimestamp's test: the timestamp lies inside the segment.
Contains(segment, timestamp) == timestamp >= segment.start /\ timestamp <= segment.end

\* Every word of the text occurs in the returned context.
TextInContext(text, context) ==
  \A i \in 1 .. Len(text) :
    text[i] # Space => \E j \in 1 .. Len(context) : context[j] = text[i]

\* C35: the context returned for a timestamp holds the text of every segment
\* the timestamp lies inside, whatever the window.
C35_CurrentSegmentInContext ==
  ctxCall.returned =>
    \A k \in 1 .. Len(ctxCall.segments) :
      Contains(ctxCall.segments[k], ctxCall.timestamp)
        => TextInContext(ctxCall.segments[k].text, ctxCall.result)

----------------------------------------------------------------------------
(* Claims about the Transcription Stage, checked under SpecAnalysis *)

\* C36: the segments transcribeAudio returns are the service's segments in the
\* same order, with start and end multiplied by 1000 and with the service's
\* confidence wherever the service gave one, 0 included, and the default 0.8
\* only where it gave none.
C36_SegmentsConverted ==
  [][\A serviceSegments \in ServiceTranscripts :
        Transcribed(serviceSegments)
          => /\ Len(anaTranscription'.segments) = Len(serviceSegments)
             /\ \A k \in 1 .. Len(serviceSegments) :
                  /\ anaTranscription'.segments[k].start = 1000 * serviceSegments[k].start
                  /\ anaTranscription'.segments[k].end = 1000 * serviceSegments[k].end
                  /\ anaTranscription'.segments[k].text = serviceSegments[k].text
                  /\ anaTranscription'.segments[k].confidence =
                       IF serviceSegments[k].confidence = NoConfidence
                       THEN DefaultConfidence
                       ELSE serviceSegments[k].confidence]_vars

-----------------------------------------------------------------------------
(* C37: resetRecording or stopRecording during a startRecording in flight  *)

\* No recording is active: no live capture handle, no tick timer, and
\* isRecording is false.
NoRecordingActive ==
  /\ recordingRef = 0
  /\ prepared = {}
  /\ timers = {}
  /\ ~recordingState.isRecording

\* C37: when resetRecording() or stopRecording() was called while a
\* startRecording() call was still in flight, then at the moment the start call
\* ends with no stop call left in flight, no recording is active.
C37_InterruptedStartLeavesNothingActive ==
  [][(startPc # "idle" /\ startInterrupted /\ startPc' = "idle" /\ stopPc' = "idle")
       => NoRecordingActive']_vars

-----------------------------------------------------------------------------
(* C38: the remote audio link is written only after a successful upload    *)

\* C38: the inspection's remote audio location changes only in the link update
\* of a stopRecording call whose upload succeeded, and to the reference that
\* upload returned; the link update is awaited only with that reference in
\* hand; a stopRecording call whose upload failed ends there, leaving the
\* inspection document as it was.
C38_LinkOnlyAfterUploadSuccess ==
  [][/\ (fsInspection'.firebaseAudioUrl # fsInspection.firebaseAudioUrl)
          => /\ stopPc = "linking"
             /\ stopFirebaseUrl = RemoteAudioUrl
             /\ fsInspection'.firebaseAudioUrl = RemoteAudioUrl
     /\ (stopPc' = "linking") => (stopFirebaseUrl' = RemoteAudioUrl)
     /\ (stopPc = "uploading" /\ stopFirebaseUrl' # RemoteAudioUrl)
          => /\ stopPc' \in {"uploading", "idle"}
             /\ fsInspection' = fsInspection]_vars

\* A stopRecording call has ended after a failed upload and the inspection has
\* no remote audio location.
C38_Witness ==
  /\ lastStop.remote = "upload failed"
  /\ stopPc = "idle"
  /\ fsInspection.firebaseAudioUrl = ""

-----------------------------------------------------------------------------
(* C39: a failed file move aborts the capture                               *)

\* C39: when FileSystem.moveAsync fails in takePicture, no photo row is
\* inserted, onPhotoTaken is not invoked, the error alert is shown and
\* isTakingPhoto is false again.
C39_MoveFailureAbortsCapture ==
  [][PictureMoved("moveAsync failed")
       => /\ dbPhotos' = dbPhotos
          /\ photosTaken' = photosTaken
          /\ lastTake' = "Error"
          /\ ~isTakingPhoto']_vars

\* A takePicture call has ended on a failed moveAsync.
C39_Witness ==
  /\ takeError = "moveAsync failed"
  /\ takePc = "idle"
  /\ lastTake = "Error"
  /\ ~isTakingPhoto
  /\ dbPhotos = <<>>
  /\ photosTaken = <<>>

-----------------------------------------------------------------------------
(* C40: the targeted updates of an inspection change nothing else          *)

\* The step leaves the photos and every inspection but inspectionId as they
\* were, and in that inspection sets column to value and updated_at to the
\* current time, leaving its other fields as they were.
OnlyColumnChanged(inspectionId, column, value) ==
  /\ dbPhotos' = dbPhotos
  /\ Len(dbInspections') = Len(dbInspections)
  /\ \A k \in 1 .. Len(dbInspections) :
       IF dbInspections[k].id = inspectionId
       THEN /\ dbInspections'[k][column] = value
            /\ dbInspections'[k].updated_at = now
            /\ \A field \in DOMAIN dbInspections[k] \ {column, "updated_at"} :
                 dbInspections'[k][field] = dbInspections[k][field]
       ELSE dbInspections'[k] = dbInspections[k]

\* C40: updateInspectionAudio, updateInspectionStatus and
\* updateInspectionFirebaseAudioUrl on an existing inspection change only their
\* target field and the updated_at of that inspection; its other fields, the
\* other inspections and the photos stay as they were.
C40_UpdatesTouchOnlyTheirTarget ==
  [][\A i \in InspectionIds :
       HasInspection(i) =>
         /\ updateInspectionAudio(i, LocalAudioUri)
              => OnlyColumnChanged(i, "audio_uri", LocalAudioUri)
         /\ InspectionDatabase_updateInspectionFirebaseAudioUrl(i, RemoteAudioUrl)
              => OnlyColumnChanged(i, "firebase_audio_url", RemoteAudioUrl)
         /\ \A status \in {"RECORDING", "READY"} :
              InspectionDatabase_updateInspectionStatus(i, status)
                => OnlyColumnChanged(i, "status", status)]_vars

\* The first of two inspections has had its audio_uri updated at the second
\* tick, next to an untouched second inspection and a photo.
C40_Witness ==
  /\ Len(dbInspections) = 2
  /\ Len(dbPhotos) = 1
  /\ dbCall.method = "updateInspectionAudio"
  /\ dbInspections[1].audio_uri = LocalAudioUri
  /\ dbInspections[1].updated_at = 2
  /\ dbInspections[1].created_at = 1
  /\ dbInspections[1].status = "DRAFT"
  /\ dbInspections[2].audio_uri = "null"
  /\ dbInspections[2].updated_at = 1

====
